---- MODULE Spec2Model ----
(***************************************************************************)
(* A model of the ai-content-automator import pipeline:                    *)
(*   - AIValidationService (fallbackFieldMapping, suggestFieldMappings,    *)
(*     validateContent) together with the TokenBudgetTracker singleton,    *)
(*   - ContentfulService.importContent with its per-row isolation and      *)
(*     lookup resolution,                                                  *)
(*   - the ContentImporter component's workflow state.                     *)
(* Strings are sequences of one-character strings, so that trimming,       *)
(* normalisation, substring tests and splitting are computed, not assumed. *)
(***************************************************************************)
EXTENDS Integers, Sequences, FiniteSets, TLC

VARIABLES
    \* --- fallbackFieldMapping applied to drawn inputs ---
    fbHeaders,      \* sourceHeaders handed to the fallback matcher
    fbFields,       \* targetFields handed to the fallback matcher
    fbResult,       \* the FieldMapping[] it returned
    fbPc,           \* "ready" | "done"
    \* --- AIValidationService calls sharing the TokenBudgetTracker singleton ---
    tracker,        \* token-budget.ts `tracker`: "null" or "live"
    usage,          \* the live tracker's TokenUsage
    call,           \* the concurrent server-action invocations, one record each
    returned,       \* what the invocation that returned last gave its caller
    \* --- ContentfulService.importContent(rows, config) ---
    impRows,        \* rows
    impConfig,      \* config
    impPc,          \* where the call stands (the await it is suspended at)
    ctFields,       \* contentTypeFields
    rowIndex,       \* i
    rowFields,      \* fields: the field-map of the row in progress
    cursor,         \* position of resolveLookupsInFields in Object.entries(fields)
    result,         \* the ImportResult
    createLog,      \* the environment.createEntry calls made, in order
    queryLog,       \* the environment.getEntries calls made, in order
    thrown,         \* the rows in which something threw, with the stage
    \* --- ContentImporter: the component's state ---
    status,
    parsedFile,
    selectedContentType,
    validation,
    fieldMappings,
    importResult,
    dryRun,
    publishImmediately,
    uiPc,           \* the await a handler of the component is suspended at
    importCalls,    \* how often the importContent server action was invoked
    \* --- one call of a function that keeps no state ---
    fnArgs,         \* its arguments
    fnResult,       \* what it returned, or that it threw
    fnPc            \* "ready" before the call, "done" after it

fbVars == <<fbHeaders, fbFields, fbResult, fbPc>>
mapVars == <<tracker, usage, call, returned>>

impVars == <<impRows, impConfig, impPc, ctFields, rowIndex, rowFields,
             cursor, result, createLog, queryLog, thrown>>

uiVars == <<status, parsedFile, selectedContentType, validation,
            fieldMappings, importResult, dryRun, publishImmediately, uiPc,
            importCalls>>

fnVars == <<fnArgs, fnResult, fnPc>>

otherThanMap == <<fbVars, impVars, uiVars, fnVars>>
otherThanFallback == <<mapVars, impVars, uiVars, fnVars>>
otherThanImport == <<fbVars, mapVars, uiVars, fnVars>>
otherThanUi == <<fbVars, mapVars, impVars, fnVars>>
otherThanFn == <<fbVars, mapVars, impVars, uiVars>>

----------------------------------------------------------------------------
(* Strings *)

UpperChars == <<"A","B","C","D","E","F","G","H","I","J","K","L","M",
                "N","O","P","Q","R","S","T","U","V","W","X","Y","Z">>
LowerChars == <<"a","b","c","d","e","f","g","h","i","j","k","l","m",
                "n","o","p","q","r","s","t","u","v","w","x","y","z">>
DigitChars == <<"0","1","2","3","4","5","6","7","8","9">>

Range(s) == {s[i] : i \in DOMAIN s}

\* String.prototype.toLowerCase, one character
ToLowerChar(c) ==
    IF \E i \in DOMAIN UpperChars : UpperChars[i] = c
    THEN LowerChars[CHOOSE i \in DOMAIN UpperChars : UpperChars[i] = c]
    ELSE c

ToLowerCase(s) == [i \in DOMAIN s |-> ToLowerChar(s[i])]

\* the character class [a-z0-9]
IsLowerAlnum(c) == c \in Range(LowerChars) \cup Range(DigitChars)

\* s.replace(/[^a-z0-9]/g, "")
RECURSIVE StripNonAlnum(_)
StripNonAlnum(s) ==
    IF s = <<>> THEN <<>>
    ELSE (IF IsLowerAlnum(Head(s)) THEN <<Head(s)>> ELSE <<>>)
         \o StripNonAlnum(Tail(s))

\* x.toLowerCase().replace(/[^a-z0-9]/g, "")
Normalize(s) == StripNonAlnum(ToLowerCase(s))

\* String.prototype.includes: t occurs in s as a contiguous substring
Includes(s, t) ==
    \E k \in 0..(Len(s) - Len(t)) :
        \A j \in 1..Len(t) : s[k + j] = t[j]

----------------------------------------------------------------------------
(* AIValidationService.fallbackFieldMapping *)

\* confidences are kept in tenths: 0.8 -> 8, 0.5 -> 5
ExactConfidence == 8
PartialConfidence == 5

ExactMatch(header, field) ==
    \/ Normalize(header) = Normalize(field.id)
    \/ Normalize(header) = Normalize(field.name)

PartialMatch(header, field) ==
    \/ Includes(Normalize(header), Normalize(field.id))
    \/ Includes(Normalize(field.id), Normalize(header))
    \/ Includes(Normalize(header), Normalize(field.name))
    \/ Includes(Normalize(field.name), Normalize(header))

\* the inner loop over targetFields for one header, from index k on:
\* the first field that matches exactly or partially ends the scan
RECURSIVE MatchHeader(_, _, _)
MatchHeader(header, targetFields, k) ==
    IF k > Len(targetFields) THEN <<>>
    ELSE IF ExactMatch(header, targetFields[k])
         THEN <<[sourceField |-> header, targetField |-> targetFields[k].id,
                 confidence |-> ExactConfidence]>>
    ELSE IF PartialMatch(header, targetFields[k])
         THEN <<[sourceField |-> header, targetField |-> targetFields[k].id,
                 confidence |-> PartialConfidence]>>
    ELSE MatchHeader(header, targetFields, k + 1)

RECURSIVE fallbackFieldMapping(_, _)
fallbackFieldMapping(sourceHeaders, targetFields) ==
    IF sourceHeaders = <<>> THEN <<>>
    ELSE MatchHeader(Head(sourceHeaders), targetFields, 1)
         \o fallbackFieldMapping(Tail(sourceHeaders), targetFields)

----------------------------------------------------------------------------
(* Inputs of the fallback matcher *)

MaxHeaders == 2
MaxFields == 2

\* column headers as the file parser delivers them (trimmed strings)
HeaderUniverse ==
    { <<"a","b">>, <<"A","_","b">>, <<"a">>, <<"b","c">>, <<"_">>, <<"z">> }

\* target field definitions {id, name}; ids are unique within a schema
FieldUniverse ==
    { [id |-> <<"a","b","c">>, name |-> <<"A","b"," ","C">>],
      [id |-> <<"a","b">>,     name |-> <<"A","B">>],
      [id |-> <<"a">>,         name |-> <<"c","c">>],
      [id |-> <<"x">>,         name |-> <<"b","_","c">>],
      [id |-> <<"y">>,         name |-> <<"-">>] }

SeqsUpTo(S, n) == UNION { [1..k -> S] : k \in 0..n }

HeaderLists == { hs \in SeqsUpTo(HeaderUniverse, MaxHeaders) : hs # <<>> }

FieldLists ==
    { fs \in SeqsUpTo(FieldUniverse, MaxFields) :
        \A i, j \in DOMAIN fs : i # j => fs[i].id # fs[j].id }



----------------------------------------------------------------------------
(* TokenBudgetTracker (token-budget.ts) *)

\* BudgetConfig, read from the environment when the tracker is constructed.
\* The model runs with OPENAI_MAX_TOKENS=10000 and OPENAI_MAX_COST_USD=0.04,
\* so that both limits are within reach of a few calls.
\* Money is counted in units of $0.0000005, which makes the gpt-4o prices
\* (2.5 and 10 dollars per million tokens) the integers 5 and 20.
maxTokens == 10000
maxCost == 80000
PricingInput == 5
PricingOutput == 20

ZeroUsage ==
    [promptTokens |-> 0, completionTokens |-> 0, totalTokens |-> 0,
     estimatedCost |-> 0, calls |-> 0]

\* (mutant) canMakeCall without the cost test of lines 72-78
canMakeCallTokensOnly(u, estimatedTokens) ==
    u.totalTokens + estimatedTokens <= maxTokens

\* canMakeCall(estimatedTokens).allowed on a tracker whose usage is u
canMakeCall(u, estimatedTokens) ==
    IF u.totalTokens + estimatedTokens > maxTokens THEN FALSE
    ELSE IF u.estimatedCost >= maxCost THEN FALSE
    ELSE TRUE

\* recordUsage(promptTokens, completionTokens, "gpt-4o"): the usage afterwards
recordUsage(u, promptTokens, completionTokens) ==
    [promptTokens     |-> u.promptTokens + promptTokens,
     completionTokens |-> u.completionTokens + completionTokens,
     totalTokens      |-> u.totalTokens + promptTokens + completionTokens,
     estimatedCost    |-> u.estimatedCost + promptTokens * PricingInput
                                          + completionTokens * PricingOutput,
     calls            |-> u.calls + 1]

\* the usage seen through getTokenBudgetTracker(): a tracker is constructed
\* with zero usage when the singleton is null
TrackerUsage == IF tracker = "null" THEN ZeroUsage ELSE usage

----------------------------------------------------------------------------
(* JavaScript values returned by the oracle and handled by the service *)

\* A parsed JSON value is an array [t |-> "arr", items |-> <<...>>] or a
\* non-array value; an array element is a FieldMapping record
\* {sourceField, targetField, confidence} or a value without those members.
JNull == [t |-> "null"]
JNum == [t |-> "num"]
JObj == [t |-> "obj"]
JArr(items) == [t |-> "arr", items |-> items]

IsArray(v) == v.t = "arr"
IsMappingElement(e) == "sourceField" \in DOMAIN e
\* reading a property of null or undefined throws a TypeError
IsNullish(e) == ~IsMappingElement(e) /\ e.t = "null"

\* message.content of a chat completion: absent, whitespace only, text that
\* is not JSON, or JSON text (kept as the value it denotes)
NoContent == [text |-> "none"]
BlankContent == [text |-> "blank"]
GarbageContent == [text |-> "garbage"]
JsonContent(v) == [text |-> "json", json |-> v]

\* response.choices[0]?.message?.content?.trim() is falsy
ContentIsEmpty(content) == content.text \in {"none", "blank"}
\* JSON.parse(content) throws a SyntaxError
JsonParseThrows(content) == content.text # "json"
JsonParse(content) == content.json

Threw == [threw |-> TRUE]
Returned(v) == [threw |-> FALSE, value |-> v]

----------------------------------------------------------------------------
(* AIValidationService.validateFieldValue *)

Null == [t |-> "null"]
Undefined == [t |-> "undefined"]
Str(s) == [t |-> "string", s |-> s]

IsString(v) == v.t = "string"
\* value === null || value === undefined || value === ""
IsEmptyValue(v) == v.t \in {"null", "undefined"} \/ (IsString(v) /\ v.s = <<>>)

IsSpace(c) == c \in {" ", "\t", "\n"}

RECURSIVE TrimStart(_)
TrimStart(s) ==
    IF s # <<>> /\ IsSpace(Head(s)) THEN TrimStart(Tail(s)) ELSE s

RECURSIVE TrimEnd(_)
TrimEnd(s) ==
    IF s # <<>> /\ IsSpace(s[Len(s)])
    THEN TrimEnd(SubSeq(s, 1, Len(s) - 1)) ELSE s

\* String.prototype.trim
Trim(s) == TrimEnd(TrimStart(s))

BooleanWords ==
    { <<"t","r","u","e">>, <<"f","a","l","s","e">>, <<"y","e","s">>,
      <<"n","o">>, <<"1">>, <<"0">>, <<"y">>, <<"n">> }

ValidationIssue(row, field, message, value) ==
    [row |-> row, field |-> field, message |-> message, value |-> value]

\* the errors validateFieldValue returns for one cell
validateFieldValue(value, field, rowNumber, sourceField) ==
    IF field.required /\ IsEmptyValue(value)
    THEN <<ValidationIssue(rowNumber, sourceField, "is empty", value)>>
    ELSE IF IsEmptyValue(value) THEN <<>>
    ELSE CASE field.type = "Boolean" ->
                IF ToLowerCase(value.s) \notin BooleanWords
                THEN <<ValidationIssue(rowNumber, sourceField,
                                       "should be a boolean value", value)>>
                ELSE <<>>
           [] field.type = "Link" ->
                IF Trim(value.s) = <<>>
                THEN <<ValidationIssue(rowNumber, sourceField,
                                       "requires an entry/asset ID", value)>>
                ELSE <<>>
           [] OTHER -> <<>>

----------------------------------------------------------------------------
(* AIValidationService.validateContent, after suggestFieldMappings returned *)

ValidationRowCap == 100
LowConfidence == 5
ReviewConfidence == 7

Min(a, b) == IF a < b THEN a ELSE b

\* row[mapping.sourceField]
Cell(row, sourceField) ==
    IF sourceField \in DOMAIN row THEN row[sourceField] ELSE Undefined

\* mappedFields.find((m) => m.targetField === fieldId) from index k on:
\* "throw" when the callback reads a member of null, else the element or "none"
RECURSIVE FindMapping(_, _, _)
FindMapping(items, fieldId, k) ==
    IF k > Len(items) THEN [r |-> "none"]
    ELSE IF IsNullish(items[k]) THEN [r |-> "throw"]
    ELSE IF IsMappingElement(items[k]) /\ items[k].targetField = fieldId
         THEN [r |-> "found", m |-> items[k]]
    ELSE FindMapping(items, fieldId, k + 1)

\* the "Validate required fields" loop: the warnings, or "throw"
RECURSIVE CoverageWarnings(_, _, _)
CoverageWarnings(mapped, fields, k) ==
    IF k > Len(fields) THEN Returned(<<>>)
    ELSE IF ~fields[k].required THEN CoverageWarnings(mapped, fields, k + 1)
    ELSE IF ~IsArray(mapped) THEN Threw
    ELSE LET f == FindMapping(mapped.items, fields[k].id, 1)
             rest == CoverageWarnings(mapped, fields, k + 1)
             warn == IF f.r = "none" \/ f.m.confidence < LowConfidence
                     THEN <<[field |-> fields[k].id, message |-> "may not have a matching column"]>>
                     ELSE <<>>
         IN  IF f.r = "throw" \/ rest.threw THEN Threw
             ELSE Returned(warn \o rest.value)

\* contentType.fields.find((f) => f.id === targetField)
FieldsWithId(fields, id) == { k \in DOMAIN fields : fields[k].id = id }

\* the errors of one row over the mappings from index k on, or "throw"
RECURSIVE RowErrors(_, _, _, _, _)
RowErrors(items, row, rowNumber, fields, k) ==
    IF k > Len(items) THEN Returned(<<>>)
    ELSE IF IsNullish(items[k]) THEN Threw
    ELSE LET rest == RowErrors(items, row, rowNumber, fields, k + 1)
             hit == IF IsMappingElement(items[k])
                    THEN FieldsWithId(fields, items[k].targetField) ELSE {}
             errs == IF hit = {} THEN <<>>
                     ELSE validateFieldValue(
                              Cell(row, items[k].sourceField),
                              fields[CHOOSE i \in hit : \A j \in hit : i <= j],
                              rowNumber, items[k].sourceField)
         IN  IF rest.threw THEN Threw ELSE Returned(errs \o rest.value)

\* (mutant) the loop bound without the cap
RowsToValidateAll(rows) == Len(rows)

\* line 55: Math.min(parsedFile.rows.length, 100)
RowsToValidate(rows) == Min(Len(rows), ValidationRowCap)

\* the errors of the rows with 0-based indices lo..hi, in row order, or
\* "throw" (the range is halved, which keeps the evaluation shallow)
RECURSIVE RowRangeErrors(_, _, _, _, _)
RowRangeErrors(items, rows, fields, lo, hi) ==
    IF lo > hi THEN Returned(<<>>)
    ELSE IF lo = hi THEN RowErrors(items, rows[lo + 1], lo + 2, fields, 1)
    ELSE LET mid == (lo + hi) \div 2
             front == RowRangeErrors(items, rows, fields, lo, mid)
             back == RowRangeErrors(items, rows, fields, mid + 1, hi)
         IN  IF front.threw \/ back.threw THEN Threw
             ELSE Returned(front.value \o back.value)

\* the "Validate data in rows" loop from row index i (0-based) on
CellErrors(mapped, rows, fields, i) ==
    IF i >= RowsToValidate(rows) THEN Returned(<<>>)
    ELSE IF ~IsArray(mapped) THEN Threw
    ELSE RowRangeErrors(mapped.items, rows, fields, i, RowsToValidate(rows) - 1)

\* mappedFields.some((m) => m.confidence < 0.7): "yes", "no" or "throw"
RECURSIVE SomeLowConfidence(_, _)
SomeLowConfidence(items, k) ==
    IF k > Len(items) THEN "no"
    ELSE IF IsNullish(items[k]) THEN "throw"
    ELSE IF IsMappingElement(items[k]) /\ items[k].confidence < ReviewConfidence
         THEN "yes"
    ELSE SomeLowConfidence(items, k + 1)

\* (mutant) warnings count against validity as well
isValidWithoutWarnings(errors, warnings) == errors = <<>> /\ warnings = <<>>

\* line 91: isValid: errors.length === 0
isValid(errors, warnings) == errors = <<>>

\* validateContent from line 42 on, given what suggestFieldMappings returned
validateContentRest(file, contentType, mappedFields) ==
    LET warnings == CoverageWarnings(mappedFields, contentType.fields, 1)
        errors == CellErrors(mappedFields, file.rows, contentType.fields, 0)
        low == IF IsArray(mappedFields)
               THEN SomeLowConfidence(mappedFields.items, 1) ELSE "throw"
    IN  IF warnings.threw \/ errors.threw \/ low = "throw" THEN Threw
        ELSE Returned(
               [isValid |-> isValid(errors.value, warnings.value),
                errors |-> errors.value,
                warnings |-> warnings.value,
                suggestions |->
                    (IF low = "yes" THEN <<"review mappings">> ELSE <<>>)
                    \o (IF Len(file.rows) > ValidationRowCap
                        THEN <<"only the first rows were validated">> ELSE <<>>),
                mappedFields |-> mappedFields])

----------------------------------------------------------------------------
(* AIValidationService.suggestFieldMappings *)

EstimatedTokensSuggest == 2500
EstimatedTokensImprove == 1000

\* lines 130-133: the budget check denied the call
suggestFieldMappingsDenied(sourceHeaders, targetFields) ==
    Returned(JArr(fallbackFieldMapping(sourceHeaders, targetFields)))

\* (mutant) empty content answered with an empty mapping list
suggestFieldMappingsReplyEmptyList(reply, content, sourceHeaders, targetFields) ==
    IF reply = "error"
    THEN Returned(JArr(fallbackFieldMapping(sourceHeaders, targetFields)))
    ELSE IF ContentIsEmpty(content)
    THEN Returned(JArr(<<>>))
    ELSE IF JsonParseThrows(content)
    THEN Returned(JArr(fallbackFieldMapping(sourceHeaders, targetFields)))
    ELSE Returned(JsonParse(content))

\* lines 152-163: what the method returns once the request has settled;
\* reply is "error" when the request rejected (the catch block runs)
suggestFieldMappingsReply(reply, content, sourceHeaders, targetFields) ==
    IF reply = "error"
    THEN Returned(JArr(fallbackFieldMapping(sourceHeaders, targetFields)))
    ELSE IF ContentIsEmpty(content)
    THEN Returned(JArr(fallbackFieldMapping(sourceHeaders, targetFields)))
    ELSE IF JsonParseThrows(content)
    THEN Returned(JArr(fallbackFieldMapping(sourceHeaders, targetFields)))
    ELSE Returned(JsonParse(content))

\* validateContent as a whole, given what suggestFieldMappings did
validateContent(file, contentType, sfm) ==
    IF sfm.threw THEN Threw
    ELSE validateContentRest(file, contentType, sfm.value)

----------------------------------------------------------------------------
(* Inputs and oracle outcomes of the validation calls *)

hId == <<"i","d">>
hOk == <<"O","k">>
hRef == <<"r","e","f">>

MapInputs ==
    { [parsedFile |->
         [headers |-> <<hId, hOk>>,
          rows |-> << (hId :> Str(<<"x">>) @@ hOk :> Str(<<"Y","e","s">>)),
                      (hId :> Null @@ hOk :> Str(<<"q">>)) >>],
       contentType |->
         [fields |-> << [id |-> <<"i","d">>, name |-> <<"I","d">>,
                         type |-> "Symbol", required |-> TRUE],
                        [id |-> <<"o","k">>, name |-> <<"I","s"," ","o","k">>,
                         type |-> "Boolean", required |-> FALSE] >>]],
      [parsedFile |->
         [headers |-> <<hRef>>,
          rows |-> << (hRef :> Str(<<"e","1">>)) >>],
       contentType |->
         [fields |-> << [id |-> <<"a","u","t","h","o","r">>,
                         name |-> <<"A","u","t","h","o","r">>,
                         type |-> "Link", required |-> TRUE] >>]] }

NoInput == [parsedFile |-> [headers |-> <<>>, rows |-> <<>>],
            contentType |-> [fields |-> <<>>]]

\* response.usage of a chat completion (absent, or the tokens it reports);
\* max_tokens caps completion_tokens at 2000 resp. 500, the prompt is not capped
NoUsage == [present |-> FALSE]
Usage(p, c) == [present |-> TRUE, promptTokens |-> p, completionTokens |-> c]
SuggestUsages == { NoUsage, Usage(1000, 1000), Usage(3000, 2000) }
ImproveUsages == { NoUsage, Usage(500, 500) }

OracleMapping(conf) ==
    [sourceField |-> hId, targetField |-> <<"i","d">>, confidence |-> conf]

\* message.content of a reply to the mapping prompt
WellFormedContents ==
    { JsonContent(JArr(<<OracleMapping(9)>>)),
      JsonContent(JArr(<<OracleMapping(3)>>)) }
MalformedJsonContents ==
    { JsonContent(JObj), JsonContent(JNum), JsonContent(JNull),
      JsonContent(JArr(<<JNull>>)), JsonContent(JArr(<<JObj>>)) }
SuggestContents ==
    {NoContent, BlankContent, GarbageContent}
        \cup WellFormedContents \cup MalformedJsonContents

ErrorOutcome == [reply |-> "error", usage |-> NoUsage, content |-> NoContent]
SuggestOutcomes ==
    {ErrorOutcome} \cup
    { [reply |-> "response", usage |-> u, content |-> ct] :
        u \in SuggestUsages, ct \in SuggestContents }
ImproveOutcomes ==
    {ErrorOutcome} \cup
    { [reply |-> "response", usage |-> u, content |-> NoContent] :
        u \in ImproveUsages }

\* The pure parts of the handlers, tabulated once over the model's inputs
\* and oracle replies (the actions below look their results up here).
SfmDeniedOf ==
    [i \in MapInputs |->
        suggestFieldMappingsDenied(i.parsedFile.headers, i.contentType.fields)]
SfmReplyOf ==
    [i \in MapInputs, r \in {"error", "response"}, ct \in SuggestContents |->
        suggestFieldMappingsReply(r, ct, i.parsedFile.headers,
                                  i.contentType.fields)]
SfmResults ==
    { SfmDeniedOf[i] : i \in MapInputs } \cup
    { SfmReplyOf[i, r, ct] :
        i \in MapInputs, r \in {"error", "response"}, ct \in SuggestContents }
ValidateOf ==
    [i \in MapInputs, sfm \in SfmResults |->
        validateContent(i.parsedFile, i.contentType, sfm)]

----------------------------------------------------------------------------
(* The concurrent invocations *)

NumCalls == 2
Calls == 1..NumCalls

IdleCall == [pc |-> "idle", kind |-> "none", input |-> NoInput, stale |-> FALSE]

\* what the invocation that returned last handed to its caller
NothingReturned ==
    [kind |-> "none", input |-> NoInput, denied |-> FALSE, reply |-> "none",
     content |-> NoContent, sfm |-> Threw, vc |-> Threw]



\* validateContent up to the await of the oracle request (lines 37, 106-140);
\* when the budget check denies, the method runs to its end without awaiting
StartValidate(c, input) ==
    /\ call[c].pc = "idle"
    /\ tracker' = "live"
    /\ usage' = TrackerUsage
    /\ IF canMakeCall(TrackerUsage, EstimatedTokensSuggest)
          THEN /\ call' = [call EXCEPT ![c] =
                        [IdleCall EXCEPT !.pc = "awaiting", !.kind = "validate",
                                         !.input = input]]
               /\ UNCHANGED returned
          ELSE /\ returned' =
                        [NothingReturned EXCEPT
                            !.kind = "validate", !.input = input,
                            !.denied = TRUE, !.sfm = SfmDeniedOf[input],
                            !.vc = ValidateOf[input, SfmDeniedOf[input]]]
               /\ UNCHANGED call
    /\ UNCHANGED otherThanMap

\* the oracle request settles: lines 142-163, then validateContent 42-96
SuggestReply(c, o) ==
    /\ call[c].pc = "awaiting"
    /\ call[c].kind = "validate"
    /\ usage' = IF o.usage.present /\ ~call[c].stale
                THEN recordUsage(usage, o.usage.promptTokens,
                                 o.usage.completionTokens)
                ELSE usage
    /\ LET input == call[c].input
           sfm == SfmReplyOf[input, o.reply, o.content]
       IN returned' =
                [NothingReturned EXCEPT
                    !.kind = "validate", !.input = input, !.reply = o.reply,
                    !.content = o.content, !.sfm = sfm,
                    !.vc = ValidateOf[input, sfm]]
    /\ call' = [call EXCEPT ![c] = IdleCall]
    /\ UNCHANGED tracker
    /\ UNCHANGED otherThanMap

\* suggestContentImprovements up to the await (lines 340-360)
StartImprove(c) ==
    /\ call[c].pc = "idle"
    /\ tracker' = "live"
    /\ usage' = TrackerUsage
    /\ IF canMakeCall(TrackerUsage, EstimatedTokensImprove)
       THEN /\ call' = [call EXCEPT ![c] =
                     [IdleCall EXCEPT !.pc = "awaiting", !.kind = "improve"]]
            /\ UNCHANGED returned
       ELSE /\ returned' = [NothingReturned EXCEPT !.kind = "improve",
                                                   !.denied = TRUE]
            /\ UNCHANGED call
    /\ UNCHANGED otherThanMap

\* suggestContentImprovements after the await (lines 362-379)
ImproveReply(c, o) ==
    /\ call[c].pc = "awaiting"
    /\ call[c].kind = "improve"
    /\ usage' = IF o.usage.present /\ ~call[c].stale
                THEN recordUsage(usage, o.usage.promptTokens,
                                 o.usage.completionTokens)
                ELSE usage
    /\ returned' = [NothingReturned EXCEPT !.kind = "improve", !.reply = o.reply]
    /\ call' = [call EXCEPT ![c] = IdleCall]
    /\ UNCHANGED tracker
    /\ UNCHANGED otherThanMap

\* resetTokenBudget(): the singleton is dropped; requests in flight keep
\* their reference to the dropped tracker and record into it
ResetTokenBudget ==
    /\ tracker = "live"
    /\ tracker' = "null"
    /\ usage' = ZeroUsage
    /\ call' = [c \in Calls |->
                 IF call[c].pc = "awaiting"
                 THEN [call[c] EXCEPT !.stale = TRUE] ELSE call[c]]
    /\ UNCHANGED returned
    /\ UNCHANGED otherThanMap

----------------------------------------------------------------------------
(* Value transforms (value-transforms part of contentful.ts) *)

StartsWith(s, p) == Len(s) >= Len(p) /\ SubSeq(s, 1, Len(p)) = p

\* String.prototype.split(sep) for a one-character separator
RECURSIVE Split(_, _)
Split(s, sep) ==
    IF \A i \in DOMAIN s : s[i] # sep THEN <<s>>
    ELSE LET k == CHOOSE i \in DOMAIN s :
                      s[i] = sep /\ \A j \in 1..(i - 1) : s[j] # sep
         IN  <<SubSeq(s, 1, k - 1)>> \o Split(SubSeq(s, k + 1, Len(s)), sep)

\* Array.prototype.join(sep)
RECURSIVE Join(_, _)
Join(parts, sep) ==
    IF parts = <<>> THEN <<>>
    ELSE IF Len(parts) = 1 THEN parts[1]
    ELSE parts[1] \o <<sep>> \o Join(Tail(parts), sep)

LookupPrefix == <<"l","o","o","k","u","p",":">>

\* (mutant) the prefix is tested without its colon
isLookupNoColon(s) == StartsWith(Trim(s), SubSeq(LookupPrefix, 1, 6))

\* isLookup(value)
isLookup(s) == StartsWith(Trim(s), LookupPrefix)

\* new Error(message): the message is kept as the pieces of its template,
\* a piece being fixed text or the text of an interpolated value
ThrewWith(message) == [threw |-> TRUE, message |-> message]
Lit(text) == [piece |-> "text", text |-> text]
Val(s) == [piece |-> "value", s |-> s]

\* (mutant) the value is the third part only
parseLookupThirdPartOnly(s) ==
    LET parts == Split(Trim(s), ":")
    IN  IF Len(parts) < 3
        THEN ThrewWith(<<Lit("Invalid lookup format: "), Val(s),
                         Lit(". Expected lookup:<fieldId>:<value>")>>)
        ELSE Returned([field |-> parts[2], value |-> parts[3]])

\* parseLookup(value): throws when there are fewer than three parts
parseLookup(s) ==
    LET parts == Split(Trim(s), ":")
    IN  IF Len(parts) < 3
        THEN ThrewWith(<<Lit("Invalid lookup format: "), Val(s),
                         Lit(". Expected lookup:<fieldId>:<value>")>>)
        ELSE Returned([field |-> parts[2],
                       value |-> Join(SubSeq(parts, 3, Len(parts)), ":")])

\* toEntryLink / toAssetLink
toEntryLink(s) == [k |-> "link", linkType |-> "Entry", id |-> Trim(s)]
toAssetLink(s) == [k |-> "link", linkType |-> "Asset", id |-> Trim(s)]

IsDigits(s) == s # <<>> /\ \A i \in DOMAIN s : s[i] \in Range(DigitChars)

\* Number(value) of a string cell, for decimal literals [-]digits[.digits]:
\* nan, or a number that is whole or not (the empty string converts to 0)
NumberOf(s) ==
    LET t == Trim(s)
        u == IF t # <<>> /\ Head(t) = "-" THEN Tail(t) ELSE t
        parts == Split(u, ".")
    IN  IF t = <<>> THEN [nan |-> FALSE, whole |-> TRUE]
        ELSE IF Len(parts) = 1 /\ IsDigits(parts[1])
             THEN [nan |-> FALSE, whole |-> TRUE]
        ELSE IF Len(parts) = 2 /\ IsDigits(parts[1] \o parts[2])
             THEN [nan |-> FALSE,
                   whole |-> \A i \in DOMAIN parts[2] : parts[2][i] = "0"]
        ELSE [nan |-> TRUE, whole |-> FALSE]

\* toNumber(value)
toNumber(s) ==
    IF NumberOf(s).nan
    THEN ThrewWith(<<Lit("Cannot convert "), Val(s), Lit(" to a number")>>)
    ELSE Returned([k |-> "number", literal |-> Trim(s)])

\* toInteger(value)
toInteger(s) ==
    IF NumberOf(s).nan
    THEN ThrewWith(<<Lit("Cannot convert "), Val(s), Lit(" to a number")>>)
    ELSE IF ~NumberOf(s).whole
    THEN ThrewWith(<<Val(s), Lit(" is not a whole number")>>)
    ELSE Returned([k |-> "number", literal |-> Trim(s)])

TrueWords == { <<"t","r","u","e">>, <<"y","e","s">>, <<"1">>, <<"y">> }
FalseWords == { <<"f","a","l","s","e">>, <<"n","o">>, <<"0">>, <<"n">> }

\* toBoolean(value) of a string cell
toBoolean(s) ==
    LET str == Trim(ToLowerCase(s))
    IN  IF str \in TrueWords THEN Returned([k |-> "boolean", b |-> TRUE])
        ELSE IF str \in FalseWords THEN Returned([k |-> "boolean", b |-> FALSE])
        ELSE ThrewWith(<<Lit("Cannot convert "), Val(s), Lit(" to boolean")>>)

----------------------------------------------------------------------------
(* ContentfulService.transformValue, mapRowToFields, resolveLookupsInFields *)

NoFieldDef == [id |-> <<>>, type |-> "undefined", linkType |-> "undefined"]

Text(s) == [k |-> "text", s |-> s]

\* transformValue(value, mapping, fieldDef) for a string cell; the field
\* kinds Array, RichText, Object and Location are not part of this model
transformValue(value, fieldDef) ==
    LET strValue == Trim(value.s)
    IN  CASE fieldDef.type = "undefined" -> Returned(Text(strValue))
          [] fieldDef.type \in {"Symbol", "Text", "Date"} ->
                Returned(Text(strValue))
          [] fieldDef.type = "Integer" -> toInteger(value.s)
          [] fieldDef.type = "Number" -> toNumber(value.s)
          [] fieldDef.type = "Boolean" -> toBoolean(value.s)
          [] fieldDef.type = "Link" ->
                IF fieldDef.linkType = "Asset"
                THEN Returned(toAssetLink(strValue))
                ELSE IF isLookup(strValue)
                THEN LET lookup == parseLookup(strValue)
                     IN  IF lookup.threw THEN lookup
                         ELSE Returned([k |-> "lookup",
                                        field |-> lookup.value.field,
                                        value |-> lookup.value.value,
                                        linkType |-> "Entry"])
                ELSE Returned(toEntryLink(strValue))
          [] OTHER -> Returned(Text(strValue))

\* val && typeof val === "object" && val.__lookup
IsLookupMarker(val) == val.k = "lookup"

\* A field-map (Record<string, any>) keeps its keys in insertion order:
\* a sequence of [id, locale, val] with distinct ids.
HasField(fields, id) == \E i \in DOMAIN fields : fields[i].id = id

\* (mutant) a key that is already set keeps its value
SetFieldKeepFirst(fields, id, locale, val) ==
    IF HasField(fields, id) THEN fields
    ELSE Append(fields, [id |-> id, locale |-> locale, val |-> val])

\* fields[id] = { [locale]: val }
SetField(fields, id, locale, val) ==
    IF HasField(fields, id)
    THEN [i \in DOMAIN fields |->
            IF fields[i].id = id
            THEN [id |-> id, locale |-> locale, val |-> val] ELSE fields[i]]
    ELSE Append(fields, [id |-> id, locale |-> locale, val |-> val])

\* contentTypeFields?.find((f) => f.id === mapping.targetField)
FieldDefOf(contentTypeFields, targetField) ==
    LET hit == { i \in DOMAIN contentTypeFields :
                    contentTypeFields[i].id = targetField }
    IN  IF hit = {} THEN NoFieldDef
        ELSE contentTypeFields[CHOOSE i \in hit : \A j \in hit : i <= j]

\* the loop of mapRowToFields over config.fieldMappings from index k on,
\* fields being the map built so far: the finished map, or Threw
RECURSIVE MapMappings(_, _, _, _, _)
MapMappings(row, config, contentTypeFields, fields, k) ==
    IF k > Len(config.fieldMappings) THEN Returned(fields)
    ELSE LET mapping == config.fieldMappings[k]
             sourceValue == Cell(row, mapping.sourceField)
         IN  IF sourceValue.t \in {"null", "undefined"}
             THEN MapMappings(row, config, contentTypeFields, fields, k + 1)
             ELSE LET v == transformValue(sourceValue,
                               FieldDefOf(contentTypeFields, mapping.targetField))
                  IN  IF v.threw THEN v
                      ELSE MapMappings(row, config, contentTypeFields,
                               SetField(fields, mapping.targetField,
                                        config.locale, v.value),
                               k + 1)

\* "Apply default values"
RECURSIVE ApplyDefaults(_, _, _)
ApplyDefaults(fields, config, k) ==
    IF k > Len(config.defaultValues) THEN fields
    ELSE LET d == config.defaultValues[k]
         IN  ApplyDefaults(
                 IF HasField(fields, d.field) THEN fields
                 ELSE SetField(fields, d.field, config.locale, d.value),
                 config, k + 1)

\* mapRowToFields(row, config, contentTypeFields)
mapRowToFields(row, config, contentTypeFields) ==
    LET mapped == MapMappings(row, config, contentTypeFields, <<>>, 1)
    IN  IF mapped.threw THEN mapped
        ELSE Returned(ApplyDefaults(mapped.value, config, 1))

\* (mutant) the resolver returns after the first marker it replaced
NextLookupFirstOnly(fields, k) ==
    LET hit == { i \in k..Len(fields) : IsLookupMarker(fields[i].val) }
    IN  IF hit = {} \/ k > 1 THEN Len(fields) + 1
        ELSE CHOOSE i \in hit : \A j \in hit : i <= j

\* resolveLookupsInFields: the first index >= k whose value is a lookup
\* marker, or Len(fields) + 1 when the loop runs to its end
NextLookup(fields, k) ==
    LET hit == { i \in k..Len(fields) : IsLookupMarker(fields[i].val) }
    IN  IF hit = {} THEN Len(fields) + 1
        ELSE CHOOSE i \in hit : \A j \in hit : i <= j

----------------------------------------------------------------------------
(* markdownToRichText and parseInlineText (contentful.ts) *)

TextNode(value, marks) == [nodeType |-> "text", value |-> value, marks |-> marks]
Block(nodeType, content) == [nodeType |-> nodeType, content |-> content]

\* String.prototype.slice(n)
Drop(s, n) == SubSeq(s, n + 1, Len(s))

\* the least i >= from at which pat occurs in text, or 0
IndexOfFrom(text, pat, from) ==
    LET hits == { i \in from..(Len(text) - Len(pat) + 1) :
                    SubSeq(text, i, i + Len(pat) - 1) = pat }
    IN  IF hits = {} THEN 0 ELSE CHOOSE i \in hits : \A j \in hits : i <= j

\* /(\*\*(.+?)\*\*)|(\*(.+?)\*)|(\[(.+?)\]\((.+?)\))/ tried at position p:
\* the alternatives in their order, each lazy group as short as it can be
InlineMatchAt(text, p) ==
    LET boldEnd == IndexOfFrom(text, <<"*","*">>, p + 3)
        italicEnd == IndexOfFrom(text, <<"*">>, p + 2)
        textEnd == IndexOfFrom(text, <<"]","(">>, p + 2)
        uriEnd == IF textEnd = 0 THEN 0
                  ELSE IndexOfFrom(text, <<")">>, textEnd + 3)
    IN  IF StartsWith(Drop(text, p - 1), <<"*","*">>) /\ boldEnd # 0
        THEN [found |-> TRUE, next |-> boldEnd + 2,
              node |-> TextNode(SubSeq(text, p + 2, boldEnd - 1), <<"bold">>)]
        ELSE IF text[p] = "*" /\ italicEnd # 0
        THEN [found |-> TRUE, next |-> italicEnd + 1,
              node |-> TextNode(SubSeq(text, p + 1, italicEnd - 1), <<"italic">>)]
        ELSE IF text[p] = "[" /\ uriEnd # 0
        THEN [found |-> TRUE, next |-> uriEnd + 1,
              node |-> [nodeType |-> "hyperlink",
                        uri |-> SubSeq(text, textEnd + 2, uriEnd - 1),
                        content |-> <<TextNode(SubSeq(text, p + 1, textEnd - 1),
                                               <<>>)>>]]
        ELSE [found |-> FALSE]

\* the while loop of parseInlineText with lastIndex = from - 1, and the
\* "remaining plain text" step after it
RECURSIVE InlineNodesFrom(_, _)
InlineNodesFrom(text, from) ==
    LET starts == { p \in from..Len(text) : InlineMatchAt(text, p).found }
    IN  IF starts = {}
        THEN IF from <= Len(text)
             THEN <<TextNode(SubSeq(text, from, Len(text)), <<>>)>>
             ELSE <<>>
        ELSE LET p == CHOOSE q \in starts : \A r \in starts : q <= r
                 m == InlineMatchAt(text, p)
             IN  (IF p > from
                  THEN <<TextNode(SubSeq(text, from, p - 1), <<>>)>> ELSE <<>>)
                 \o <<m.node>> \o InlineNodesFrom(text, m.next)

\* (mutant) without the "ensure at least one node" step
parseInlineTextMayBeEmpty(text) == InlineNodesFrom(text, 1)

\* parseInlineText(text)
parseInlineText(text) ==
    LET nodes == InlineNodesFrom(text, 1)
    IN  IF nodes = <<>> THEN <<TextNode(text, <<>>)>> ELSE nodes

\* the number of leading characters of s that belong to the set chars
RECURSIVE LeadingRun(_, _)
LeadingRun(s, chars) ==
    IF s # <<>> /\ Head(s) \in chars THEN 1 + LeadingRun(Tail(s), chars) ELSE 0

Whitespace == {" ", "\t", "\n"}

\* /^---+$/.test(line.trim())
IsRuleLine(line) ==
    Len(Trim(line)) >= 3 /\ \A i \in DOMAIN Trim(line) : Trim(line)[i] = "-"

\* line.match(/^(#{1,6})\s+(.+)$/): the level and the text, or level 0
HeadingMatch(line) ==
    LET level == LeadingRun(line, {"#"})
        rest == Drop(line, level)
        gap == LeadingRun(rest, Whitespace)
    IN  IF level \notin 1..6 \/ gap = 0 THEN [level |-> 0]
        ELSE IF gap < Len(rest) THEN [level |-> level, text |-> Drop(rest, gap)]
        ELSE IF gap >= 2 THEN [level |-> level, text |-> Drop(rest, gap - 1)]
        ELSE [level |-> 0]

\* /^\s*[-*]\s+/: the length of the match, or 0
BulletPrefix(line) ==
    LET indent == LeadingRun(line, Whitespace)
        rest == Drop(line, indent)
        gap == LeadingRun(Drop(rest, 1), Whitespace)
    IN  IF rest # <<>> /\ rest[1] \in {"-", "*"} /\ gap > 0
        THEN indent + 1 + gap ELSE 0

\* /^\s*\d+\.\s+/: the length of the match, or 0
NumberPrefix(line) ==
    LET indent == LeadingRun(line, Whitespace)
        rest == Drop(line, indent)
        digits == LeadingRun(rest, Range(DigitChars))
        after == Drop(rest, digits)
        gap == LeadingRun(Drop(after, 1), Whitespace)
    IN  IF digits > 0 /\ after # <<>> /\ after[1] = "." /\ gap > 0
        THEN indent + digits + 1 + gap ELSE 0

ListPrefix(kind, line) ==
    IF kind = "unordered-list" THEN BulletPrefix(line) ELSE NumberPrefix(line)

\* (mutant) every list line opens a list of its own
ListItemsSingle(kind, lines, i) ==
    <<Block("list-item",
        <<Block("paragraph",
            parseInlineText(Drop(lines[i], ListPrefix(kind, lines[i]))))>>)>>

\* the inner while loop of a list: the items of the lines i, i+1, ... as
\* long as they match the list's pattern
RECURSIVE ListItems(_, _, _)
ListItems(kind, lines, i) ==
    IF i > Len(lines) \/ ListPrefix(kind, lines[i]) = 0 THEN <<>>
    ELSE <<Block("list-item",
              <<Block("paragraph",
                  parseInlineText(Drop(lines[i], ListPrefix(kind, lines[i]))))>>)>>
         \o ListItems(kind, lines, i + 1)

\* the outer while loop from line i (1-based) on: the blocks pushed
RECURSIVE BlocksFrom(_, _)
BlocksFrom(lines, i) ==
    IF i > Len(lines) THEN <<>>
    ELSE LET line == lines[i]
             heading == HeadingMatch(line)
         IN  IF Trim(line) = <<>> THEN BlocksFrom(lines, i + 1)
             ELSE IF IsRuleLine(line)
             THEN <<Block("hr", <<>>)>> \o BlocksFrom(lines, i + 1)
             ELSE IF heading.level # 0
             THEN <<[nodeType |-> "heading", level |-> heading.level,
                     content |-> parseInlineText(heading.text)]>>
                  \o BlocksFrom(lines, i + 1)
             ELSE IF StartsWith(line, <<">", " ">>)
             THEN <<Block("blockquote",
                       <<Block("paragraph", parseInlineText(Drop(line, 2)))>>)>>
                  \o BlocksFrom(lines, i + 1)
             ELSE IF BulletPrefix(line) # 0
             THEN LET items == ListItems("unordered-list", lines, i)
                  IN  <<Block("unordered-list", items)>>
                      \o BlocksFrom(lines, i + Len(items))
             ELSE IF NumberPrefix(line) # 0
             THEN LET items == ListItems("ordered-list", lines, i)
                  IN  <<Block("ordered-list", items)>>
                      \o BlocksFrom(lines, i + Len(items))
             ELSE <<Block("paragraph", parseInlineText(line))>>
                  \o BlocksFrom(lines, i + 1)

\* (mutant) an input without blocks gives a document without blocks
markdownToRichTextNoFiller(markdown) ==
    Block("document", BlocksFrom(Split(markdown, "\n"), 1))

\* markdownToRichText(markdown)
markdownToRichText(markdown) ==
    LET content == BlocksFrom(Split(markdown, "\n"), 1)
    IN  Block("document",
              IF content = <<>>
              THEN <<Block("paragraph", <<TextNode(<<>>, <<>>)>>)>>
              ELSE content)

----------------------------------------------------------------------------
(* Inputs of importContent *)

MaxRows == 2

cRef == <<"r","e","f">>
cAlt == <<"a","l","t">>
cNum == <<"n">>
fAuthor == <<"a","u","t","h","o","r">>
fEditor == <<"e","d","i","t","o","r">>
fCount == <<"c","o","u","n","t">>

sEntry1 == <<"e","1">>
sLookupSlugA == <<"l","o","o","k","u","p",":","s","l","u","g",":","a">>
sLookupIdXY == <<" ","l","o","o","k","u","p",":","i","d",":","x",":","y"," ">>
sLookupShort == <<"l","o","o","k","u","p",":","s","l","u","g">>

\* rows as the file parser delivers them (trimmed strings or null)
RowSamples ==
    { (cRef :> Str(sEntry1) @@ cAlt :> Null @@ cNum :> Str(<<"7">>)),
      (cRef :> Str(sLookupSlugA) @@ cAlt :> Str(sLookupIdXY) @@ cNum :> Null),
      (cRef :> Str(sLookupShort) @@ cAlt :> Null @@ cNum :> Str(<<"7">>)),
      (cRef :> Str(sEntry1) @@ cAlt :> Str(sLookupSlugA)
            @@ cNum :> Str(<<"1",".","5">>)) }

RowLists == SeqsUpTo(RowSamples, MaxRows)

\* the fields environment.getContentType(config.contentTypeId) reports
ImportContentTypeFields ==
    << [id |-> fAuthor, type |-> "Link", linkType |-> "Entry"],
       [id |-> fEditor, type |-> "Link", linkType |-> "Entry"],
       [id |-> fCount, type |-> "Integer", linkType |-> "undefined"] >>

Mapping(source, target) ==
    [sourceField |-> source, targetField |-> target, confidence |-> 10]

ImportConfigs ==
    { [locale |-> "en-US", publishImmediately |-> p,
       fieldMappings |-> fm, defaultValues |-> dv] :
        p \in BOOLEAN,
        fm \in { << Mapping(cRef, fAuthor), Mapping(cAlt, fEditor),
                    Mapping(cNum, fCount) >>,
                 << Mapping(cRef, fAuthor), Mapping(cAlt, fAuthor) >> },
        dv \in { <<>>,
                 << [field |-> fCount,
                     value |-> [k |-> "number", literal |-> <<"0">>]] >> } }

\* the entry a successful lookup query returns first
FoundEntryId == <<"h","i","t">>

NoConfig ==
    [locale |-> "en-US", publishImmediately |-> FALSE,
     fieldMappings |-> <<>>, defaultValues |-> <<>>]

EmptyResult ==
    [success |-> TRUE, totalProcessed |-> 0, created |-> 0, updated |-> 0,
     failed |-> 0, errors |-> <<>>, entries |-> <<>>]

----------------------------------------------------------------------------
(* ContentfulService.importContent *)

\* where the loop goes after row index i (0-based) has been counted
AfterRow(i) == IF i < Len(impRows) THEN "map" ELSE "finish"

\* (mutant) a row's failure ends the batch
RowCatchAbort(message) ==
    /\ result' = [result EXCEPT
            !.failed = @ + 1,
            !.errors = Append(@, [row |-> rowIndex + 2, message |-> message]),
            !.totalProcessed = @ + 1]
    /\ thrown' = Append(thrown, [row |-> rowIndex + 2, stage |-> message])
    /\ rowIndex' = rowIndex + 1
    /\ impPc' = "finish"
    /\ rowFields' = <<>>
    /\ cursor' = 1

\* (mutant) the first failure of a run makes the loop take the row again
RowCatchRetryOnce(message) ==
    /\ result' = [result EXCEPT
            !.failed = @ + 1,
            !.errors = Append(@, [row |-> rowIndex + 2, message |-> message]),
            !.totalProcessed = @ + 1]
    /\ thrown' = Append(thrown, [row |-> rowIndex + 2, stage |-> message])
    /\ rowIndex' = IF thrown = <<>> THEN rowIndex ELSE rowIndex + 1
    /\ impPc' = IF thrown = <<>> THEN "map" ELSE AfterRow(rowIndex + 1)
    /\ rowFields' = <<>>
    /\ cursor' = 1

\* lines 176-184: the catch block of one row, then totalProcessed++ and i++
RowCatch(message) ==
    /\ result' = [result EXCEPT
            !.failed = @ + 1,
            !.errors = Append(@, [row |-> rowIndex + 2, message |-> message]),
            !.totalProcessed = @ + 1]
    /\ thrown' = Append(thrown, [row |-> rowIndex + 2, stage |-> message])
    /\ rowIndex' = rowIndex + 1
    /\ impPc' = AfterRow(rowIndex + 1)
    /\ rowFields' = <<>>
    /\ cursor' = 1

\* lines 168-175 and 184: the row succeeded
RowSuccess(entryId) ==
    /\ result' = [result EXCEPT
            !.created = @ + 1,
            !.entries = Append(@,
                [row |-> rowIndex + 2, entryId |-> entryId,
                 action |-> "created",
                 status |-> IF impConfig.publishImmediately
                            THEN "published" ELSE "draft"]),
            !.totalProcessed = @ + 1]
    /\ rowIndex' = rowIndex + 1
    /\ impPc' = AfterRow(rowIndex + 1)
    /\ rowFields' = <<>>
    /\ cursor' = 1
    /\ UNCHANGED thrown

\* lines 188-194: the outer catch block
OuterCatch ==
    /\ result' = [result EXCEPT
            !.success = FALSE,
            !.errors = Append(@, [row |-> 0, message |-> "Import failed"])]
    /\ impPc' = "returned"

\* line 127: await this.client.getSpace(this.spaceId)
GetSpace(ok) ==
    /\ impPc = "getSpace"
    /\ IF ok THEN impPc' = "getEnvironment" /\ UNCHANGED result
       ELSE OuterCatch
    /\ UNCHANGED <<impRows, impConfig, ctFields, rowIndex, rowFields,
                   cursor, createLog, queryLog, thrown>>
    /\ UNCHANGED otherThanImport

\* line 128: await space.getEnvironment(this.environmentId)
GetEnvironment(ok) ==
    /\ impPc = "getEnvironment"
    /\ IF ok THEN impPc' = "getContentType" /\ UNCHANGED result
       ELSE OuterCatch
    /\ UNCHANGED <<impRows, impConfig, ctFields, rowIndex, rowFields,
                   cursor, createLog, queryLog, thrown>>
    /\ UNCHANGED otherThanImport

\* lines 131-146: the content type's fields, or none when the request fails
\* (ctFields undefined behaves as a list in which no id is found)
GetContentType(ok) ==
    /\ impPc = "getContentType"
    /\ ctFields' = IF ok THEN ImportContentTypeFields ELSE <<>>
    /\ impPc' = AfterRow(0)
    /\ UNCHANGED <<impRows, impConfig, rowIndex, rowFields, cursor, result,
                   createLog, queryLog, thrown>>
    /\ UNCHANGED otherThanImport

\* lines 149-153: mapRowToFields for row i
MapRow ==
    /\ impPc = "map"
    /\ LET mapped == mapRowToFields(impRows[rowIndex + 1], impConfig,
                                    ctFields)
       IN IF mapped.threw THEN RowCatch("transform failed")
          ELSE /\ rowFields' = mapped.value
               /\ cursor' = 1
               /\ impPc' = "resolve"
               /\ UNCHANGED <<result, rowIndex, thrown>>
    /\ UNCHANGED <<impRows, impConfig, ctFields, createLog, queryLog>>
    /\ UNCHANGED otherThanImport

\* lines 336-347: the next lookup marker is queried with getEntries
ResolveLookup(outcome) ==
    /\ impPc = "resolve"
    /\ NextLookup(rowFields, cursor) <= Len(rowFields)
    /\ LET k == NextLookup(rowFields, cursor)
       IN /\ queryLog' = Append(queryLog,
                 [row |-> rowIndex + 2, fieldId |-> rowFields[k].id,
                  field |-> rowFields[k].val.field,
                  value |-> rowFields[k].val.value,
                  outcome |-> outcome])
          /\ CASE outcome = "found" ->
                    /\ rowFields' = [rowFields EXCEPT
                                    ![k].val = toEntryLink(FoundEntryId)]
                    /\ cursor' = k + 1
                    /\ UNCHANGED <<impPc, result, rowIndex, thrown>>
               [] outcome = "none" -> RowCatch("Lookup failed")
               [] outcome = "error" -> RowCatch("getEntries failed")
    /\ UNCHANGED <<impRows, impConfig, ctFields, createLog>>
    /\ UNCHANGED otherThanImport

\* lines 159-166: the resolve loop has run to its end; createEntry is called
CreateEntry(ok) ==
    /\ impPc = "resolve"
    /\ NextLookup(rowFields, cursor) > Len(rowFields)
    /\ createLog' = Append(createLog,
            [row |-> rowIndex + 2, fields |-> rowFields, created |-> ok])
    /\ IF ~ok THEN RowCatch("createEntry failed")
       ELSE IF impConfig.publishImmediately
            THEN /\ impPc' = "publish"
                 /\ UNCHANGED <<result, rowIndex, rowFields, cursor, thrown>>
            ELSE RowSuccess(Len(createLog) + 1)
    /\ UNCHANGED <<impRows, impConfig, ctFields, queryLog>>
    /\ UNCHANGED otherThanImport

\* line 165: await entry.publish()
Publish(ok) ==
    /\ impPc = "publish"
    /\ IF ok THEN RowSuccess(Len(createLog))
       ELSE RowCatch("publish failed")
    /\ UNCHANGED <<impRows, impConfig, ctFields, createLog, queryLog>>
    /\ UNCHANGED otherThanImport

\* lines 187, 196: result.success = result.failed === 0; return result
ReturnResult ==
    /\ impPc = "finish"
    /\ result' = [result EXCEPT !.success = (result.failed = 0)]
    /\ impPc' = "returned"
    /\ UNCHANGED <<impRows, impConfig, ctFields, rowIndex, rowFields,
                   cursor, createLog, queryLog, thrown>>
    /\ UNCHANGED otherThanImport

----------------------------------------------------------------------------
(* ContentImporter (components/content-importer.tsx) *)

MaxUiRows == 2
MaxImportCalls == 2

NullValue == [null |-> TRUE]

\* what the parseFile server action can deliver: 0..MaxUiRows data rows
ParsedFiles == { [rows |-> [i \in 1..n |-> "row"]] : n \in 0..MaxUiRows }

ContentTypeIds == { "blogPost" }

\* mapping lists validateContent can return and the mapping editor can set
UiMappingLists ==
    { <<>>,
      << Mapping(cRef, fAuthor) >>,
      << Mapping(cRef, fAuthor), Mapping(cNum, fCount) >> }

\* lines 140-154: the result the dry run makes up
simulatedResult(rows, contentType, publish) ==
    [success |-> TRUE,
     totalProcessed |-> Len(rows),
     created |-> Len(rows),
     updated |-> 0,
     failed |-> 0,
     entries |-> [index \in 1..Len(rows) |->
                    [row |-> index, entryId |-> index,
                     contentType |-> contentType, action |-> "created",
                     status |-> IF publish THEN "published" ELSE "draft"]],
     errors |-> <<>>]

\* what ContentfulService.importContent returns through the server action
\* when the first created rows were imported and the others failed
ServiceResult(rows, publish, created) ==
    [success |-> created = Len(rows),
     totalProcessed |-> Len(rows),
     created |-> created,
     updated |-> 0,
     failed |-> Len(rows) - created,
     entries |-> [i \in 1..created |->
                    [row |-> i + 1, entryId |-> i, action |-> "created",
                     status |-> IF publish THEN "published" ELSE "draft"]],
     errors |-> [i \in 1..(Len(rows) - created) |->
                    [row |-> created + i + 1, message |-> "row failed"]]]

\* ... and when the space or environment could not be obtained
ServiceSetupFailure ==
    [EmptyResult EXCEPT
        !.success = FALSE,
        !.errors = << [row |-> 0, message |-> "Import failed"] >>]

\* replies of the importContent server action (actions.ts lines 100-119)
ImportActionReplies(rows, publish) ==
    { [success |-> FALSE, data |-> NullValue] }
    \cup { [success |-> TRUE, data |-> ServiceResult(rows, publish, c)] :
            c \in 0..Len(rows) }
    \cup { [success |-> TRUE, data |-> ServiceSetupFailure] }

AllImportReplies ==
    UNION { ImportActionReplies(f.rows, p) : f \in ParsedFiles, p \in BOOLEAN }

\* (mutant) step 3 is rendered without a validation result
Step3ShownUnvalidated ==
    parsedFile # NullValue /\ selectedContentType # "" /\ status = "mapping"

\* render conditions
Step2Shown == parsedFile # NullValue /\ status = "mapping" /\ validation = NullValue
Step3Shown ==
    validation # NullValue /\ selectedContentType # "" /\ status = "mapping"
ResetShown ==
    \/ Step3Shown
    \/ importResult # NullValue /\ status = "complete"
    \/ status = "error"

\* (mutant) handleImport without the dry-run branch
ImportBranchAlwaysReal(dry) == "importContent"

\* line 138: if (dryRun) { ...simulate... return } else the server action
ImportBranch(dry) == IF dry THEN "timer" ELSE "importContent"

\* lines 51-56: a file is dropped on the upload zone
HandleFileSelect ==
    /\ status = "idle"
    /\ uiPc = "none"
    /\ status' = "parsing"
    /\ uiPc' = "parseFile"
    /\ UNCHANGED <<parsedFile, selectedContentType, validation, fieldMappings,
                   importResult, dryRun, publishImmediately, importCalls>>
    /\ UNCHANGED otherThanUi

\* lines 60-67, 85-93: parseFile answers
ParseFileReply(ok, file) ==
    /\ uiPc = "parseFile"
    /\ IF ok
       THEN /\ parsedFile' = file
            /\ uiPc' = "getContentTypes"
            /\ UNCHANGED status
       ELSE /\ status' = "error"
            /\ uiPc' = "none"
            /\ UNCHANGED parsedFile
    /\ UNCHANGED <<selectedContentType, validation, fieldMappings,
                   importResult, dryRun, publishImmediately, importCalls>>
    /\ UNCHANGED otherThanUi

\* lines 70-77, 85-93: getContentTypes answers
GetContentTypesReply(ok) ==
    /\ uiPc = "getContentTypes"
    /\ status' = IF ok THEN "mapping" ELSE "error"
    /\ uiPc' = "none"
    /\ UNCHANGED <<parsedFile, selectedContentType, validation, fieldMappings,
                   importResult, dryRun, publishImmediately, importCalls>>
    /\ UNCHANGED otherThanUi

\* line 262: the content type select of step 2
SetSelectedContentType(id) ==
    /\ Step2Shown
    /\ uiPc = "none"
    /\ selectedContentType' = id
    /\ UNCHANGED <<status, parsedFile, validation, fieldMappings,
                   importResult, dryRun, publishImmediately, uiPc, importCalls>>
    /\ UNCHANGED otherThanUi

\* lines 98-103: "Validate" is pressed
HandleValidate ==
    /\ Step2Shown
    /\ uiPc = "none"
    /\ selectedContentType # ""
    /\ parsedFile # NullValue
    /\ status' = "validating"
    /\ uiPc' = "validateContent"
    /\ UNCHANGED <<parsedFile, selectedContentType, validation, fieldMappings,
                   importResult, dryRun, publishImmediately, importCalls>>
    /\ UNCHANGED otherThanUi

\* lines 106-126: validateContent answers
ValidateContentReply(ok, isValidReply, mappedFields) ==
    /\ uiPc = "validateContent"
    /\ IF ok
       THEN /\ validation' = [isValid |-> isValidReply,
                              mappedFields |-> mappedFields]
            /\ fieldMappings' = mappedFields
            /\ status' = "mapping"
       ELSE /\ status' = "error"
            /\ UNCHANGED <<validation, fieldMappings>>
    /\ uiPc' = "none"
    /\ UNCHANGED <<parsedFile, selectedContentType, importResult, dryRun,
                   publishImmediately, importCalls>>
    /\ UNCHANGED otherThanUi

\* line 303: the mapping editor hands over a changed list
SetFieldMappings(mappings) ==
    /\ Step3Shown
    /\ uiPc = "none"
    /\ fieldMappings' = mappings
    /\ UNCHANGED <<status, parsedFile, selectedContentType, validation,
                   importResult, dryRun, publishImmediately, uiPc, importCalls>>
    /\ UNCHANGED otherThanUi

\* line 377: the dry-run switch
SetDryRun(checked) ==
    /\ Step3Shown
    /\ uiPc = "none"
    /\ dryRun' = checked
    /\ UNCHANGED <<status, parsedFile, selectedContentType, validation,
                   fieldMappings, importResult, publishImmediately, uiPc,
                   importCalls>>
    /\ UNCHANGED otherThanUi

\* line 395: the publish switch
SetPublishImmediately(checked) ==
    /\ Step3Shown
    /\ uiPc = "none"
    /\ publishImmediately' = checked
    /\ UNCHANGED <<status, parsedFile, selectedContentType, validation,
                   fieldMappings, importResult, dryRun, uiPc, importCalls>>
    /\ UNCHANGED otherThanUi

\* lines 130-138, 168-176: "Import" is pressed (the button is disabled while
\* fieldMappings is empty or status is importing)
HandleImport ==
    /\ Step3Shown
    /\ uiPc = "none"
    /\ fieldMappings # <<>> /\ status # "importing"
    /\ ~(parsedFile = NullValue \/ selectedContentType = ""
            \/ Len(fieldMappings) = 0)
    /\ status' = "importing"
    /\ uiPc' = ImportBranch(dryRun)
    /\ IF uiPc' = "importContent"
       THEN importCalls < MaxImportCalls /\ importCalls' = importCalls + 1
       ELSE UNCHANGED importCalls
    /\ UNCHANGED <<parsedFile, selectedContentType, validation, fieldMappings,
                   importResult, dryRun, publishImmediately>>
    /\ UNCHANGED otherThanUi

\* lines 139-165: the simulated delay is over
DryRunElapsed ==
    /\ uiPc = "timer"
    /\ importResult' = simulatedResult(parsedFile.rows, selectedContentType,
                                       publishImmediately)
    /\ status' = "complete"
    /\ uiPc' = "none"
    /\ UNCHANGED <<parsedFile, selectedContentType, validation, fieldMappings,
                   dryRun, publishImmediately, importCalls>>
    /\ UNCHANGED otherThanUi

\* lines 176-194: the importContent server action answers
ImportContentReply(reply) ==
    /\ uiPc = "importContent"
    /\ reply \in ImportActionReplies(parsedFile.rows, publishImmediately)
    /\ IF ~reply.success \/ reply.data = NullValue
       THEN /\ status' = "error"
            /\ UNCHANGED importResult
       ELSE /\ importResult' = reply.data
            /\ status' = "complete"
    /\ uiPc' = "none"
    /\ UNCHANGED <<parsedFile, selectedContentType, validation, fieldMappings,
                   dryRun, publishImmediately, importCalls>>
    /\ UNCHANGED otherThanUi

\* lines 198-207: Cancel, "Import another file" or "Try Again"
HandleReset ==
    /\ ResetShown
    /\ uiPc = "none"
    /\ status' = "idle"
    /\ parsedFile' = NullValue
    /\ selectedContentType' = ""
    /\ validation' = NullValue
    /\ fieldMappings' = <<>>
    /\ importResult' = NullValue
    /\ UNCHANGED <<dryRun, publishImmediately, uiPc, importCalls>>
    /\ UNCHANGED otherThanUi

----------------------------------------------------------------------------
(* Specifications *)

vars == <<fbVars, mapVars, impVars, uiVars, fnVars>>

FallbackCall ==
    /\ fbPc = "ready"
    /\ fbResult' = fallbackFieldMapping(fbHeaders, fbFields)
    /\ fbPc' = "done"
    /\ UNCHANGED <<fbHeaders, fbFields>>
    /\ UNCHANGED otherThanFallback

\* the fallback matcher applied to every drawn (headers, fields)
InitFallback ==
    /\ fbHeaders \in HeaderLists
    /\ fbFields \in FieldLists
    /\ fbResult = <<>>
    /\ fbPc = "ready"
    /\ tracker = "null"
    /\ usage = ZeroUsage
    /\ call = <<>>
    /\ returned = NothingReturned
    /\ impRows = <<>>
    /\ impConfig = NoConfig
    /\ impPc = "off"
    /\ ctFields = <<>>
    /\ rowIndex = 0
    /\ rowFields = <<>>
    /\ cursor = 1
    /\ result = EmptyResult
    /\ createLog = <<>>
    /\ queryLog = <<>>
    /\ thrown = <<>>
    /\ status = "idle"
    /\ parsedFile = NullValue
    /\ selectedContentType = ""
    /\ validation = NullValue
    /\ fieldMappings = <<>>
    /\ importResult = NullValue
    /\ dryRun = TRUE
    /\ publishImmediately = FALSE
    /\ uiPc = "off"
    /\ importCalls = 0
    /\ fnArgs = <<>>
    /\ fnResult = <<>>
    /\ fnPc = "off"

SpecFallback == InitFallback /\ [][FallbackCall]_vars

\* concurrent validateContent / suggestContentImprovements invocations
InitMapping ==
    /\ tracker = "null"
    /\ usage = ZeroUsage
    /\ call = [c \in Calls |-> IdleCall]
    /\ returned = NothingReturned
    /\ fbHeaders = <<>>
    /\ fbFields = <<>>
    /\ fbResult = <<>>
    /\ fbPc = "off"
    /\ impRows = <<>>
    /\ impConfig = NoConfig
    /\ impPc = "off"
    /\ ctFields = <<>>
    /\ rowIndex = 0
    /\ rowFields = <<>>
    /\ cursor = 1
    /\ result = EmptyResult
    /\ createLog = <<>>
    /\ queryLog = <<>>
    /\ thrown = <<>>
    /\ status = "idle"
    /\ parsedFile = NullValue
    /\ selectedContentType = ""
    /\ validation = NullValue
    /\ fieldMappings = <<>>
    /\ importResult = NullValue
    /\ dryRun = TRUE
    /\ publishImmediately = FALSE
    /\ uiPc = "off"
    /\ importCalls = 0
    /\ fnArgs = <<>>
    /\ fnResult = <<>>
    /\ fnPc = "off"

NextMapping ==
    \/ \E c \in Calls, input \in MapInputs : StartValidate(c, input)
    \/ \E c \in Calls, o \in SuggestOutcomes : SuggestReply(c, o)
    \/ \E c \in Calls : StartImprove(c)
    \/ \E c \in Calls, o \in ImproveOutcomes : ImproveReply(c, o)
    \/ ResetTokenBudget

SpecMapping == InitMapping /\ [][NextMapping]_vars

\* one importContent(rows, config) call against a Contentful environment
\* whose every request may succeed or fail
InitImport ==
    /\ impRows \in RowLists
    /\ impConfig \in ImportConfigs
    /\ impPc = "getSpace"
    /\ ctFields = <<>>
    /\ rowIndex = 0
    /\ rowFields = <<>>
    /\ cursor = 1
    /\ result = EmptyResult
    /\ createLog = <<>>
    /\ queryLog = <<>>
    /\ thrown = <<>>
    /\ fbHeaders = <<>>
    /\ fbFields = <<>>
    /\ fbResult = <<>>
    /\ fbPc = "off"
    /\ tracker = "null"
    /\ usage = ZeroUsage
    /\ call = <<>>
    /\ returned = NothingReturned
    /\ status = "idle"
    /\ parsedFile = NullValue
    /\ selectedContentType = ""
    /\ validation = NullValue
    /\ fieldMappings = <<>>
    /\ importResult = NullValue
    /\ dryRun = TRUE
    /\ publishImmediately = FALSE
    /\ uiPc = "off"
    /\ importCalls = 0
    /\ fnArgs = <<>>
    /\ fnResult = <<>>
    /\ fnPc = "off"

NextImport ==
    \/ \E ok \in BOOLEAN : GetSpace(ok)
    \/ \E ok \in BOOLEAN : GetEnvironment(ok)
    \/ \E ok \in BOOLEAN : GetContentType(ok)
    \/ MapRow
    \/ \E outcome \in {"found", "none", "error"} : ResolveLookup(outcome)
    \/ \E ok \in BOOLEAN : CreateEntry(ok)
    \/ \E ok \in BOOLEAN : Publish(ok)
    \/ ReturnResult

SpecImport == InitImport /\ [][NextImport]_vars

\* one ContentImporter component driven by its user, the server actions
\* answering with success or failure
InitUi ==
    /\ status = "idle"
    /\ parsedFile = NullValue
    /\ selectedContentType = ""
    /\ validation = NullValue
    /\ fieldMappings = <<>>
    /\ importResult = NullValue
    /\ dryRun = TRUE
    /\ publishImmediately = FALSE
    /\ uiPc = "none"
    /\ importCalls = 0
    /\ fbHeaders = <<>>
    /\ fbFields = <<>>
    /\ fbResult = <<>>
    /\ fbPc = "off"
    /\ tracker = "null"
    /\ usage = ZeroUsage
    /\ call = <<>>
    /\ returned = NothingReturned
    /\ impRows = <<>>
    /\ impConfig = NoConfig
    /\ impPc = "off"
    /\ ctFields = <<>>
    /\ rowIndex = 0
    /\ rowFields = <<>>
    /\ cursor = 1
    /\ result = EmptyResult
    /\ createLog = <<>>
    /\ queryLog = <<>>
    /\ thrown = <<>>
    /\ fnArgs = <<>>
    /\ fnResult = <<>>
    /\ fnPc = "off"

NextUi ==
    \/ HandleFileSelect
    \/ \E ok \in BOOLEAN, file \in ParsedFiles : ParseFileReply(ok, file)
    \/ \E ok \in BOOLEAN : GetContentTypesReply(ok)
    \/ \E id \in ContentTypeIds \cup {""} : SetSelectedContentType(id)
    \/ HandleValidate
    \/ \E ok, valid \in BOOLEAN, m \in UiMappingLists :
            ValidateContentReply(ok, valid, m)
    \/ \E m \in UiMappingLists : SetFieldMappings(m)
    \/ \E b \in BOOLEAN : SetDryRun(b)
    \/ \E b \in BOOLEAN : SetPublishImmediately(b)
    \/ HandleImport
    \/ DryRunElapsed
    \/ \E reply \in AllImportReplies : ImportContentReply(reply)
    \/ HandleReset

SpecUi == InitUi /\ [][NextUi]_vars


----------------------------------------------------------------------------
(* validateContent on drawn files, schemas and mapping lists *)

MaxExtraRows == 1
MaxMappings == 2

\* a row that passes every check of the schemas below, and one that fails
GoodRow == (hId :> Str(<<"x">>) @@ hOk :> Str(<<"Y","e","s">>))
BadRow == (hId :> Null @@ hOk :> Str(<<"q">>))

FileRowCounts ==
    {0, 1} \cup ValidationRowCap..(ValidationRowCap + MaxExtraRows)

\* files of n rows in which only the rows at the positions bad are BadRow
FileOf(n, bad) ==
    [headers |-> <<hId, hOk>>,
     rows |-> [i \in 1..n |-> IF i \in bad THEN BadRow ELSE GoodRow]]

ValidateFiles ==
    UNION { { FileOf(n, {}), FileOf(n, 1..n), FileOf(n, {n}), FileOf(n, {1}) } :
            n \in FileRowCounts }

fId == <<"i","d">>
fOk == <<"o","k">>
fZz == <<"z","z">>

ValidateContentTypes ==
    { [fields |-> << [id |-> fId, name |-> <<"I","d">>,
                      type |-> "Symbol", required |-> TRUE],
                     [id |-> fOk, name |-> <<"I","s"," ","o","k">>,
                      type |-> "Boolean", required |-> FALSE] >>],
      [fields |-> << [id |-> fId, name |-> <<"I","d">>,
                      type |-> "Symbol", required |-> TRUE],
                     [id |-> fOk, name |-> <<"I","s"," ","o","k">>,
                      type |-> "Boolean", required |-> TRUE],
                     [id |-> fAuthor, name |-> <<"A","u","t","h","o","r">>,
                      type |-> "Link", required |-> TRUE] >>] }

\* mappings suggestFieldMappings can hand over: the oracle's list is taken
\* as it comes, so targets may repeat or name no field of the schema
MappingUniverse ==
    { [sourceField |-> st[1], targetField |-> st[2], confidence |-> c] :
        st \in { <<hId, fId>>, <<hOk, fOk>>, <<hOk, fId>> }, c \in {4, 5, 7} }
    \cup { [sourceField |-> hId, targetField |-> fZz, confidence |-> 7] }

ValidateMappingLists ==
    { JArr(m) : m \in SeqsUpTo(MappingUniverse, MaxMappings) }
        \cup { JArr(<<JNull>>) }

ValidateArgs ==
    { [parsedFile |-> f, contentType |-> ct, mappedFields |-> m] :
        f \in ValidateFiles, ct \in ValidateContentTypes,
        m \in ValidateMappingLists }

InitValidate ==
    /\ fnArgs \in ValidateArgs
    /\ fnResult = <<>>
    /\ fnPc = "ready"
    /\ fbHeaders = <<>>
    /\ fbFields = <<>>
    /\ fbResult = <<>>
    /\ fbPc = "off"
    /\ tracker = "null"
    /\ usage = ZeroUsage
    /\ call = <<>>
    /\ returned = NothingReturned
    /\ impRows = <<>>
    /\ impConfig = NoConfig
    /\ impPc = "off"
    /\ ctFields = <<>>
    /\ rowIndex = 0
    /\ rowFields = <<>>
    /\ cursor = 1
    /\ result = EmptyResult
    /\ createLog = <<>>
    /\ queryLog = <<>>
    /\ thrown = <<>>
    /\ status = "idle"
    /\ parsedFile = NullValue
    /\ selectedContentType = ""
    /\ validation = NullValue
    /\ fieldMappings = <<>>
    /\ importResult = NullValue
    /\ dryRun = TRUE
    /\ publishImmediately = FALSE
    /\ uiPc = "off"
    /\ importCalls = 0

\* validateContent(parsedFile, contentType), suggestFieldMappings having
\* returned fnArgs.mappedFields
ValidateContentCall ==
    /\ fnPc = "ready"
    /\ fnResult' = validateContent(fnArgs.parsedFile, fnArgs.contentType,
                                   Returned(fnArgs.mappedFields))
    /\ fnPc' = "done"
    /\ UNCHANGED fnArgs
    /\ UNCHANGED otherThanFn

SpecValidate == InitValidate /\ [][ValidateContentCall]_vars

----------------------------------------------------------------------------
(* transformValue and parseLookup on drawn cells and field definitions *)

MaxTail == 4

CellPrefixes ==
    { <<>>, LookupPrefix, <<" ">> \o LookupPrefix,
      SubSeq(LookupPrefix, 1, 6), <<"L">> \o Tail(LookupPrefix) }

CellTails == SeqsUpTo({"a", ":", " "}, MaxTail)

\* cells for the scalar conversions
ScalarCells ==
    { <<"7">>, <<" ","7"," ">>, <<"-","3">>, <<"1",".","5">>, <<"2",".","0">>,
      <<"x">>, <<"y","e","s">>, <<" ","N","o"," ">>, <<"m","a","y","b","e">> }

TransformCells ==
    { p \o t : p \in CellPrefixes, t \in CellTails } \cup ScalarCells

FieldDefOfType(type, linkType) ==
    [id |-> <<"f">>, name |-> <<"F","i","e","l","d">>,
     type |-> type, linkType |-> linkType]

TransformFieldDefs ==
    { FieldDefOfType("Link", "Entry"), FieldDefOfType("Link", "Asset"),
      FieldDefOfType("Integer", "undefined"),
      FieldDefOfType("Number", "undefined"),
      FieldDefOfType("Boolean", "undefined"),
      FieldDefOfType("Symbol", "undefined"), NoFieldDef }

InitTransform ==
    /\ fnArgs \in [cell : TransformCells, fieldDef : TransformFieldDefs]
    /\ fnResult = <<>>
    /\ fnPc = "ready"
    /\ fbHeaders = <<>>
    /\ fbFields = <<>>
    /\ fbResult = <<>>
    /\ fbPc = "off"
    /\ tracker = "null"
    /\ usage = ZeroUsage
    /\ call = <<>>
    /\ returned = NothingReturned
    /\ impRows = <<>>
    /\ impConfig = NoConfig
    /\ impPc = "off"
    /\ ctFields = <<>>
    /\ rowIndex = 0
    /\ rowFields = <<>>
    /\ cursor = 1
    /\ result = EmptyResult
    /\ createLog = <<>>
    /\ queryLog = <<>>
    /\ thrown = <<>>
    /\ status = "idle"
    /\ parsedFile = NullValue
    /\ selectedContentType = ""
    /\ validation = NullValue
    /\ fieldMappings = <<>>
    /\ importResult = NullValue
    /\ dryRun = TRUE
    /\ publishImmediately = FALSE
    /\ uiPc = "off"
    /\ importCalls = 0

\* transformValue(cell, mapping, fieldDef)
TransformValueCall ==
    /\ fnPc = "ready"
    /\ fnResult' = [op |-> "transformValue",
                    r |-> transformValue(Str(fnArgs.cell), fnArgs.fieldDef)]
    /\ fnPc' = "done"
    /\ UNCHANGED fnArgs
    /\ UNCHANGED otherThanFn

\* parseLookup(cell)
ParseLookupCall ==
    /\ fnPc = "ready"
    /\ fnResult' = [op |-> "parseLookup", r |-> parseLookup(fnArgs.cell)]
    /\ fnPc' = "done"
    /\ UNCHANGED fnArgs
    /\ UNCHANGED otherThanFn

NextTransform == TransformValueCall \/ ParseLookupCall

SpecTransform == InitTransform /\ [][NextTransform]_vars

----------------------------------------------------------------------------
(* markdownToRichText on drawn markdown texts *)

MaxLines == 4

\* lines that decide the block structure
BlockLines ==
    { <<>>, <<" ">>, <<"-","-","-">>, <<"#"," ","a">>, <<">"," ","a">>,
      <<"-"," ","c">>, <<"*"," ","b">>, <<"1","."," ","a">>,
      <<"2","."," ","b">>, <<"a">> }

\* one-line texts for the edges of the line patterns and the inline parser
EdgeLines ==
    { <<"-"," ">>, <<">"," ">>, <<"#"," ">>, <<"#"," "," ">>, <<"-","a">>,
      <<"1",".","a">>, <<" ","-"," ","a">>, <<"-","-","-","-">>, <<"-","-">>,
      <<"#","#","#","#","#","#","#"," ","a">>,
      <<"*","*","a","*","*">>, <<"*","a","*","b">>, <<"*","*","*">>,
      <<"[","a","]","(","u",")">>, <<"a","[","b","]","(","c",")","d">>,
      <<"[","a","]","(",")">>, <<"*","*","a">> }

MarkdownTexts ==
    { Join(ls, "\n") : ls \in SeqsUpTo(BlockLines, MaxLines) } \cup EdgeLines

InitRichText ==
    /\ fnArgs \in [markdown : MarkdownTexts]
    /\ fnResult = <<>>
    /\ fnPc = "ready"
    /\ fbHeaders = <<>>
    /\ fbFields = <<>>
    /\ fbResult = <<>>
    /\ fbPc = "off"
    /\ tracker = "null"
    /\ usage = ZeroUsage
    /\ call = <<>>
    /\ returned = NothingReturned
    /\ impRows = <<>>
    /\ impConfig = NoConfig
    /\ impPc = "off"
    /\ ctFields = <<>>
    /\ rowIndex = 0
    /\ rowFields = <<>>
    /\ cursor = 1
    /\ result = EmptyResult
    /\ createLog = <<>>
    /\ queryLog = <<>>
    /\ thrown = <<>>
    /\ status = "idle"
    /\ parsedFile = NullValue
    /\ selectedContentType = ""
    /\ validation = NullValue
    /\ fieldMappings = <<>>
    /\ importResult = NullValue
    /\ dryRun = TRUE
    /\ publishImmediately = FALSE
    /\ uiPc = "off"
    /\ importCalls = 0

\* markdownToRichText(markdown)
MarkdownToRichTextCall ==
    /\ fnPc = "ready"
    /\ fnResult' = markdownToRichText(fnArgs.markdown)
    /\ fnPc' = "done"
    /\ UNCHANGED fnArgs
    /\ UNCHANGED otherThanFn

SpecRichText == InitRichText /\ [][MarkdownToRichTextCall]_vars

----------------------------------------------------------------------------
(* FieldMappingEditor.updateMapping (field-mapping.tsx) *)

\* (mutant) the source column is never looked up among the mappings
updateMappingAlwaysAppend(mappings, sourceField, targetField) ==
    IF targetField = <<>>
    THEN SelectSeq(mappings, LAMBDA m : m.sourceField # sourceField)
    ELSE Append(mappings, [sourceField |-> sourceField,
                           targetField |-> targetField, confidence |-> 10])

\* updateMapping(sourceField, targetField): the list handed to
\* onMappingsChange
updateMapping(mappings, sourceField, targetField) ==
    LET existing == \E i \in DOMAIN mappings :
                        mappings[i].sourceField = sourceField
    IN  IF targetField = <<>>
        THEN SelectSeq(mappings, LAMBDA m : m.sourceField # sourceField)
        ELSE IF existing
        THEN [i \in DOMAIN mappings |->
                IF mappings[i].sourceField = sourceField
                THEN [mappings[i] EXCEPT !.targetField = targetField,
                                         !.confidence = 10]
                ELSE mappings[i]]
        ELSE Append(mappings, [sourceField |-> sourceField,
                               targetField |-> targetField, confidence |-> 10])

MaxStartMappings == 2

\* the rows of the editor (sourceHeaders) and the options of each select
\* (the empty value "skip this column" and the ids of targetFields)
EditorHeaders == { <<"a">>, <<"b">>, <<"c">> }
EditorTargets == { <<>>, <<"t">>, <<"u">> }

\* the lists the editor can be opened on: no source and no target twice
EditorStartLists ==
    { ms \in SeqsUpTo([sourceField : EditorHeaders,
                       targetField : EditorTargets \ {<<>>},
                       confidence : {5, 10}], MaxStartMappings) :
        \A i, j \in DOMAIN ms :
            i # j => /\ ms[i].sourceField # ms[j].sourceField
                     /\ ms[i].targetField # ms[j].targetField }

InitEditor ==
    /\ fieldMappings \in EditorStartLists
    /\ fnArgs = <<>>
    /\ fnResult = <<>>
    /\ fnPc = "off"
    /\ fbHeaders = <<>>
    /\ fbFields = <<>>
    /\ fbResult = <<>>
    /\ fbPc = "off"
    /\ tracker = "null"
    /\ usage = ZeroUsage
    /\ call = <<>>
    /\ returned = NothingReturned
    /\ impRows = <<>>
    /\ impConfig = NoConfig
    /\ impPc = "off"
    /\ ctFields = <<>>
    /\ rowIndex = 0
    /\ rowFields = <<>>
    /\ cursor = 1
    /\ result = EmptyResult
    /\ createLog = <<>>
    /\ queryLog = <<>>
    /\ thrown = <<>>
    /\ status = "mapping"
    /\ parsedFile = NullValue
    /\ selectedContentType = ""
    /\ validation = NullValue
    /\ importResult = NullValue
    /\ dryRun = TRUE
    /\ publishImmediately = FALSE
    /\ uiPc = "editor"
    /\ importCalls = 0

\* onChange of the select in the row of `header`; fnArgs keeps the choice
UpdateMapping(header, value) ==
    /\ uiPc = "editor"
    /\ fieldMappings' = updateMapping(fieldMappings, header, value)
    /\ fnArgs' = [sourceField |-> header, targetField |-> value]
    /\ UNCHANGED <<fnResult, fnPc>>
    /\ UNCHANGED <<status, parsedFile, selectedContentType, validation,
                   importResult, dryRun, publishImmediately, uiPc, importCalls>>
    /\ UNCHANGED <<fbVars, mapVars, impVars>>

NextEditor ==
    \E header \in EditorHeaders, value \in EditorTargets :
        UpdateMapping(header, value)

SpecEditor == InitEditor /\ [][NextEditor]_vars

----------------------------------------------------------------------------
(* mapRowToFields on drawn rows and mapping lists *)

MaxConfigMappings == 3

\* cells as the file parser delivers them
MapRowCells == { Null, Str(sEntry1), Str(<<"7">>) }

\* rows with the three columns, and one row without the columns alt and n
MapRows ==
    [{cRef, cAlt, cNum} -> MapRowCells] \cup { (cRef :> Str(sEntry1)) }

MapRowMappings ==
    { Mapping(c, f) : c \in {cRef, cAlt, cNum}, f \in {fAuthor, fCount} }

MapRowConfigs ==
    { [locale |-> "en-US", publishImmediately |-> FALSE,
       fieldMappings |-> fm, defaultValues |-> dv] :
        fm \in SeqsUpTo(MapRowMappings, MaxConfigMappings),
        dv \in { <<>>,
                 << [field |-> fCount,
                     value |-> [k |-> "number", literal |-> <<"0">>]] >> } }

InitMapRow ==
    /\ fnArgs \in [row : MapRows, config : MapRowConfigs]
    /\ fnResult = <<>>
    /\ fnPc = "ready"
    /\ fbHeaders = <<>>
    /\ fbFields = <<>>
    /\ fbResult = <<>>
    /\ fbPc = "off"
    /\ tracker = "null"
    /\ usage = ZeroUsage
    /\ call = <<>>
    /\ returned = NothingReturned
    /\ impRows = <<>>
    /\ impConfig = NoConfig
    /\ impPc = "off"
    /\ ctFields = <<>>
    /\ rowIndex = 0
    /\ rowFields = <<>>
    /\ cursor = 1
    /\ result = EmptyResult
    /\ createLog = <<>>
    /\ queryLog = <<>>
    /\ thrown = <<>>
    /\ status = "idle"
    /\ parsedFile = NullValue
    /\ selectedContentType = ""
    /\ validation = NullValue
    /\ fieldMappings = <<>>
    /\ importResult = NullValue
    /\ dryRun = TRUE
    /\ publishImmediately = FALSE
    /\ uiPc = "off"
    /\ importCalls = 0

\* mapRowToFields(row, config, contentType.fields)
MapRowToFieldsCall ==
    /\ fnPc = "ready"
    /\ fnResult' = mapRowToFields(fnArgs.row, fnArgs.config,
                                  ImportContentTypeFields)
    /\ fnPc' = "done"
    /\ UNCHANGED fnArgs
    /\ UNCHANGED otherThanFn

SpecMapRow == InitMapRow /\ [][MapRowToFieldsCall]_vars

----------------------------------------------------------------------------
(* validateFieldValue and toBoolean on drawn cells of a Boolean field *)

MaxPad == 1

CellPads == SeqsUpTo({" "}, MaxPad)

CellWords ==
    BooleanWords \cup
    { <<"T","R","U","E">>, <<"Y","e","s">>, <<"N">>, <<"N","o">>,
      <<"m","a","y","b","e">>, <<"2">>, <<"t">>, <<"o","n">>, <<>> }

BooleanCells == { Str(l \o w \o r) : l \in CellPads, w \in CellWords, r \in CellPads }

BooleanFieldDefs ==
    { [id |-> fOk, name |-> fOk, type |-> "Boolean", required |-> req] :
        req \in BOOLEAN }

InitBoolean ==
    /\ fnArgs \in [value : BooleanCells, field : BooleanFieldDefs]
    /\ fnResult = <<>>
    /\ fnPc = "ready"
    /\ fbHeaders = <<>>
    /\ fbFields = <<>>
    /\ fbResult = <<>>
    /\ fbPc = "off"
    /\ tracker = "null"
    /\ usage = ZeroUsage
    /\ call = <<>>
    /\ returned = NothingReturned
    /\ impRows = <<>>
    /\ impConfig = NoConfig
    /\ impPc = "off"
    /\ ctFields = <<>>
    /\ rowIndex = 0
    /\ rowFields = <<>>
    /\ cursor = 1
    /\ result = EmptyResult
    /\ createLog = <<>>
    /\ queryLog = <<>>
    /\ thrown = <<>>
    /\ status = "idle"
    /\ parsedFile = NullValue
    /\ selectedContentType = ""
    /\ validation = NullValue
    /\ fieldMappings = <<>>
    /\ importResult = NullValue
    /\ dryRun = TRUE
    /\ publishImmediately = FALSE
    /\ uiPc = "off"
    /\ importCalls = 0

\* validateFieldValue(value, field, 2, sourceField) at preview time
ValidateFieldValueCall ==
    /\ fnPc = "ready"
    /\ fnResult' = [errors |-> validateFieldValue(fnArgs.value, fnArgs.field,
                                                  2, fnArgs.field.id)]
    /\ fnPc' = "validated"
    /\ UNCHANGED fnArgs
    /\ UNCHANGED otherThanFn

\* toBoolean(value) at import time, on the same cell
ToBooleanCall ==
    /\ fnPc = "validated"
    /\ fnResult' = [errors |-> fnResult.errors,
                    converted |-> toBoolean(fnArgs.value.s)]
    /\ fnPc' = "done"
    /\ UNCHANGED fnArgs
    /\ UNCHANGED otherThanFn

NextBoolean == ValidateFieldValueCall \/ ToBooleanCall

SpecBoolean == InitBoolean /\ [][NextBoolean]_vars

----------------------------------------------------------------------------
(* Claims about suggestFieldMappings, validateContent and the token budget *)

ReturnedFallback ==
    JArr(fallbackFieldMapping(returned.input.parsedFile.headers,
                              returned.input.contentType.fields))

\* the oracle call of the invocation that returned last failed: the request
\* rejected, the content was empty, or the content did not parse as JSON
OracleFailed ==
    /\ returned.kind = "validate"
    /\ ~returned.denied
    /\ \/ returned.reply = "error"
       \/ ContentIsEmpty(returned.content)
       \/ JsonParseThrows(returned.content)

\* C3: suggestFieldMappings never throws, and whenever the oracle call fails
\* (request error, empty content, content that is not JSON) it returns
\* exactly fallbackFieldMapping(sourceHeaders, targetFields).
C3_SuggestFallsBackOnFailure ==
    returned.kind = "validate" =>
        /\ ~returned.sfm.threw
        /\ OracleFailed => returned.sfm.value = ReturnedFallback

C3_Witness ==
    /\ OracleFailed
    /\ returned.content = GarbageContent
    /\ returned.sfm = Returned(ReturnedFallback)
    /\ ReturnedFallback.items # <<>>

\* C4 (as claimed): when the oracle answers with JSON that is not a
\* well-formed array of FieldMapping records, suggestFieldMappings returns
\* the fallback matcher's result.
C4_MalformedOutputFallsBack ==
    ( /\ returned.kind = "validate"
      /\ returned.reply = "response"
      /\ returned.content \in MalformedJsonContents )
    => returned.sfm = Returned(ReturnedFallback)

\* C5 (as claimed): validateContent never throws, whatever the oracle did.
C5_ValidateNeverThrows ==
    returned.kind = "validate" => ~returned.vc.threw

\* C6 (as claimed): the tracker's usage never exceeds the configured limits.
C6_UsageWithinBudget ==
    /\ usage.totalTokens <= maxTokens
    /\ usage.estimatedCost <= maxCost

\* canMakeCall(2500) would deny on the tracker getTokenBudgetTracker() yields
SuggestDenied ==
    \/ TrackerUsage.totalTokens + 2500 > maxTokens
    \/ TrackerUsage.estimatedCost >= maxCost

ValidateStarts == \E c \in Calls, i \in MapInputs : StartValidate(c, i)

\* C7: when the budget check denies a suggestFieldMappings call, no request
\* is sent (no invocation starts awaiting the oracle), no usage is recorded
\* and the call returns the fallback mapping; and once canMakeCall(2500)
\* denies, it keeps denying until the tracker is reset.
C7_DeniedSkipsOracleAndStaysDenied ==
    [][ /\ (SuggestDenied /\ ValidateStarts) =>
              /\ call' = call
              /\ usage' = TrackerUsage
              /\ returned'.denied
              /\ returned'.sfm =
                    Returned(JArr(fallbackFieldMapping(
                        returned'.input.parsedFile.headers,
                        returned'.input.contentType.fields)))
        /\ (SuggestDenied /\ tracker' # "null") => SuggestDenied' ]_vars

C7_Witness ==
    /\ SuggestDenied
    /\ returned.kind = "validate"
    /\ returned.denied
    /\ returned.sfm = Returned(ReturnedFallback)
    /\ ReturnedFallback.items # <<>>

----------------------------------------------------------------------------
(* Claims about the fallback matcher *)

\* C10 (as claimed): if some field's normalized id or name equals the
\* normalized header, the header is mapped to such a field with confidence
\* 0.8, also when an earlier field matches it only by substring containment.
C10_ExactBeatsSubstring ==
    fbPc = "done" =>
        \A i \in DOMAIN fbHeaders :
            (\E k \in DOMAIN fbFields : ExactMatch(fbHeaders[i], fbFields[k]))
            => \E j \in DOMAIN fbResult, k \in DOMAIN fbFields :
                   /\ fbResult[j].sourceField = fbHeaders[i]
                   /\ fbResult[j].targetField = fbFields[k].id
                   /\ fbResult[j].confidence = ExactConfidence
                   /\ ExactMatch(fbHeaders[i], fbFields[k])

----------------------------------------------------------------------------
(* Claims about importContent *)

ErrorsOfRow(n) == { k \in DOMAIN result.errors : result.errors[k].row = n }
EntriesOfRow(n) == { k \in DOMAIN result.entries : result.entries[k].row = n }
ThrownInRow(n) == { k \in DOMAIN thrown : thrown[k].row = n }
EnvironmentObtained == ErrorsOfRow(0) = {}

\* C1: a row in which transform, lookup resolution, createEntry or publish
\* throws is counted as one failed row with one error entry and no imported
\* entry; the rows after it are still visited; and when the call returns
\* after the space and environment were obtained, totalProcessed equals
\* rows.length whatever rows failed.
C1_RowFailuresIsolated ==
    /\ result.totalProcessed = rowIndex
    /\ result.failed = Len(thrown)
    /\ \A i \in 1..rowIndex :
          /\ Cardinality(ErrorsOfRow(i + 1)) + Cardinality(EntriesOfRow(i + 1)) = 1
          /\ Cardinality(ThrownInRow(i + 1)) = Cardinality(ErrorsOfRow(i + 1))
    /\ (impPc = "returned" /\ EnvironmentObtained) =>
          /\ rowIndex = Len(impRows)
          /\ result.totalProcessed = Len(impRows)
          /\ result.created + result.failed = Len(impRows)

\* the first row failed at lookup resolution, the second one was imported
C1_Witness ==
    /\ impPc = "returned"
    /\ Len(impRows) = 2
    /\ \E k \in ThrownInRow(2) : thrown[k].stage = "Lookup failed"
    /\ ErrorsOfRow(2) # {}
    /\ EntriesOfRow(3) # {}
    /\ result.totalProcessed = 2

QueriesOfRow(n) == { q \in DOMAIN queryLog : queryLog[q].row = n }
MarkersIn(fieldMap) ==
    { j \in DOMAIN fieldMap : IsLookupMarker(fieldMap[j].val) }

\* C2: every createEntry call of a row comes after the resolver has gone
\* through the whole field-map of that row: each lookup marker of the mapped
\* row was queried and replaced by the link to the entry found, the field-map
\* handed over holds no marker, and no query of that row came back empty or
\* failed.
C2_CreateOnlyAfterLookupsResolved ==
    \A k \in DOMAIN createLog :
        LET c == createLog[k]
            mapped == mapRowToFields(impRows[c.row - 1], impConfig, ctFields)
        IN  /\ MarkersIn(c.fields) = {}
            /\ \A q \in QueriesOfRow(c.row) : queryLog[q].outcome = "found"
            /\ ~mapped.threw
            /\ Cardinality(QueriesOfRow(c.row)) =
                   Cardinality(MarkersIn(mapped.value))
            /\ DOMAIN c.fields = DOMAIN mapped.value
            /\ \A j \in DOMAIN c.fields :
                  c.fields[j] =
                      IF j \in MarkersIn(mapped.value)
                      THEN [mapped.value[j] EXCEPT
                               !.val = toEntryLink(FoundEntryId)]
                      ELSE mapped.value[j]

\* a row with two lookups reached createEntry, and an earlier row whose
\* lookup matched nothing did not
C2_Witness ==
    \E k \in DOMAIN createLog :
        /\ createLog[k].row = 3
        /\ Cardinality(QueriesOfRow(3)) = 2
        /\ \E q \in QueriesOfRow(2) : queryLog[q].outcome = "none"
        /\ \A j \in DOMAIN createLog : createLog[j].row # 2

----------------------------------------------------------------------------
(* Claims about ContentImporter *)

\* C8: when "Import" is pressed with the dry-run switch on, the importContent
\* server action is not invoked, neither then nor while the simulation runs,
\* and the simulation ends in status 'complete' with a result whose created
\* count is the number of parsed rows and whose failed count is 0.
C8_DryRunWritesNothing ==
    [][ /\ (dryRun /\ status # "importing" /\ status' = "importing") =>
              /\ uiPc' = "timer"
              /\ importCalls' = importCalls
        /\ uiPc = "timer" =>
              /\ importCalls' = importCalls
              /\ uiPc' # "importContent"
              /\ dryRun' = dryRun
              /\ status' = "complete"
              /\ importResult'.created = Len(parsedFile.rows)
              /\ importResult'.totalProcessed = Len(parsedFile.rows)
              /\ importResult'.failed = 0
              /\ importResult'.success ]_vars

\* a dry run of a two-row file has completed and the server action was
\* never invoked
C8_Witness ==
    /\ status = "complete"
    /\ dryRun
    /\ importCalls = 0
    /\ Len(parsedFile.rows) = 2
    /\ importResult.created = 2
    /\ importResult.failed = 0

\* the positions of the result whose sourceField is the header h
MappingsOfHeader(h) == { j \in DOMAIN fbResult : fbResult[j].sourceField = h }

\* no field's normalized id or name equals, contains or is contained in the
\* normalized header; a header that normalizes to the empty string counts as
\* matching nothing
HeaderUnmatched(h) ==
    \/ Normalize(h) = <<>>
    \/ \A k \in DOMAIN fbFields :
          ~ExactMatch(h, fbFields[k]) /\ ~PartialMatch(h, fbFields[k])

\* C11 (as claimed): the fallback emits at most one mapping per header, in
\* header order, so unique headers give unique sourceField values; and a
\* header that matches no field, which includes every header that normalizes
\* to the empty string, yields no mapping entry.
C11_OneMappingPerMatchedHeader ==
    fbPc = "done" =>
        /\ Len(fbResult) <= Len(fbHeaders)
        /\ \E pos \in [DOMAIN fbResult -> DOMAIN fbHeaders] :
              /\ \A j \in DOMAIN fbResult :
                    fbResult[j].sourceField = fbHeaders[pos[j]]
              /\ \A i, j \in DOMAIN fbResult : i < j => pos[i] < pos[j]
        /\ (\A i, j \in DOMAIN fbHeaders : i # j => fbHeaders[i] # fbHeaders[j])
              => \A i, j \in DOMAIN fbResult :
                    i # j => fbResult[i].sourceField # fbResult[j].sourceField
        /\ \A i \in DOMAIN fbHeaders :
              HeaderUnmatched(fbHeaders[i]) => MappingsOfHeader(fbHeaders[i]) = {}

----------------------------------------------------------------------------
(* Claims about validateContent *)

TruncationNote == "only the first rows were validated"

C13_ValidIffNoErrors ==
    (fnPc = "done" /\ ~fnResult.threw) =>
        LET rows == fnArgs.parsedFile.rows
            res == fnResult.value
        IN  /\ res.isValid <=> (res.errors = <<>>)
            /\ (\A i \in 1..Min(Len(rows), ValidationRowCap) : rows[i] = GoodRow)
                  => res.isValid

\* a result with a coverage warning and the low-confidence suggestion,
\* cells having been checked, that is valid
C13_Witness ==
    /\ fnPc = "done"
    /\ ~fnResult.threw
    /\ fnArgs.parsedFile.rows # <<>>
    /\ fnResult.value.mappedFields.items # <<>>
    /\ fnResult.value.warnings # <<>>
    /\ \E k \in DOMAIN fnResult.value.suggestions :
          fnResult.value.suggestions[k] = "review mappings"
    /\ fnResult.value.isValid

\* the coverage warnings of a result that name the field id
WarningsNaming(res, id) ==
    { k \in DOMAIN res.warnings : res.warnings[k].field = id }

\* no mapping targets the field with a confidence of at least 0.5
NoConfidentMapping(items, id) ==
    \A k \in DOMAIN items :
        items[k].targetField = id => items[k].confidence < LowConfidence

\* C14 (as claimed): a required field gets exactly one warning (without a
\* row number) iff no mapping targets it or its mapping has confidence below
\* 0.5, and none as soon as one of several mappings targeting it has
\* confidence 0.5 or more; a non-required field gets no warning.
C14_CoverageWarningIffNoConfidentMapping ==
    (fnPc = "done" /\ ~fnResult.threw) =>
        LET res == fnResult.value
            fs == fnArgs.contentType.fields
        IN  /\ \A k \in DOMAIN res.warnings : "row" \notin DOMAIN res.warnings[k]
            /\ \A i \in DOMAIN fs :
                  Cardinality(WarningsNaming(res, fs[i].id)) =
                      IF fs[i].required
                            /\ NoConfidentMapping(res.mappedFields.items, fs[i].id)
                      THEN 1 ELSE 0

----------------------------------------------------------------------------
(* Claims about transformValue and parseLookup *)

TransformedEntryLink ==
    /\ fnPc = "done"
    /\ fnResult.op = "transformValue"
    /\ fnArgs.fieldDef.type = "Link"
    /\ fnArgs.fieldDef.linkType = "Entry"

\* the trimmed cell is lookup:<fieldId>:<value>: it starts with "lookup:"
\* and has a second colon
MatchesLookupGrammar(t) ==
    StartsWith(t, LookupPrefix) /\ \E i \in 8..Len(t) : t[i] = ":"

SecondColon(t) ==
    CHOOSE i \in 8..Len(t) : t[i] = ":" /\ \A j \in 8..(i - 1) : t[j] # ":"

\* the placeholder for a trimmed cell that matches the grammar
PlaceholderOf(t) ==
    [k |-> "lookup", field |-> SubSeq(t, 8, SecondColon(t) - 1),
     value |-> SubSeq(t, SecondColon(t) + 1, Len(t)), linkType |-> "Entry"]

\* C15 (as claimed): for an Entry link field, a trimmed cell of the form
\* lookup:<fieldId>:<value> becomes the placeholder {field, value}, and every
\* other trimmed cell, "lookup:slug" included, becomes an immediate link to
\* the trimmed string, nothing being thrown.
C15_EveryOtherCellIsALink ==
    TransformedEntryLink =>
        LET t == Trim(fnArgs.cell)
        IN  fnResult.r =
              IF MatchesLookupGrammar(t) THEN Returned(PlaceholderOf(t))
              ELSE Returned([k |-> "link", linkType |-> "Entry", id |-> t])

\* C15 (amended): a trimmed cell lookup:<fieldId>:<value> becomes the
\* placeholder; a trimmed cell that starts with "lookup:" but has no second
\* colon makes transformValue throw "Invalid lookup format"; every trimmed
\* cell that does not start with "lookup:" becomes an immediate link to it.
C15_MalformedLookupThrows ==
    TransformedEntryLink =>
        LET t == Trim(fnArgs.cell)
        IN  IF MatchesLookupGrammar(t)
            THEN fnResult.r = Returned(PlaceholderOf(t))
            ELSE IF StartsWith(t, LookupPrefix)
            THEN /\ fnResult.r.threw
                 /\ fnResult.r.message[1] = Lit("Invalid lookup format: ")
            ELSE fnResult.r =
                    Returned([k |-> "link", linkType |-> "Entry", id |-> t])

\* "lookup:a" was transformed for an Entry link field, and it threw
C15_Witness ==
    /\ TransformedEntryLink
    /\ fnArgs.cell = LookupPrefix \o <<"a">>
    /\ fnResult.r.threw

\* field ids without a colon, and values that neither start nor end with
\* whitespace and may hold colons
LookupFieldIds == SeqsUpTo({"a", " "}, MaxTail)
LookupValues ==
    { v \in CellTails : v = <<>> \/ (~IsSpace(v[1]) /\ ~IsSpace(v[Len(v)])) }

\* C16: parseLookup("lookup:" + fieldId + ":" + value) returns field =
\* fieldId and value = value verbatim, for every fieldId without a colon and
\* every value without leading or trailing whitespace, colons in it included.
C16_ParseLookupExact ==
    (fnPc = "done" /\ fnResult.op = "parseLookup") =>
        \A fieldId \in LookupFieldIds, value \in LookupValues :
            fnArgs.cell = LookupPrefix \o fieldId \o <<":">> \o value
            => fnResult.r = Returned([field |-> fieldId, value |-> value])

\* parseLookup("lookup:a::a") has returned: the value ":a" holds a colon
C16_Witness ==
    /\ fnPc = "done"
    /\ fnResult.op = "parseLookup"
    /\ fnArgs.cell = LookupPrefix \o <<"a", ":", ":", "a">>
    /\ ~fnResult.r.threw
    /\ fnResult.r.value.field = <<"a">>
    /\ fnResult.r.value.value = <<":", "a">>

\* the message of a thrown error has the text s interpolated in it
MessageCarries(message, s) == \E k \in DOMAIN message : message[k] = Val(s)

\* C20 (as claimed): every error the value transform throws for a cell it
\* cannot coerce (Integer, Number, Boolean, malformed lookup) carries the
\* target field's name and the offending raw value in its message, which is
\* the message the row's ImportError gets.
C20_ErrorCarriesFieldAndValue ==
    (fnPc = "done" /\ fnResult.op = "transformValue" /\ fnResult.r.threw) =>
        /\ MessageCarries(fnResult.r.message, Trim(fnArgs.cell))
              \/ MessageCarries(fnResult.r.message, fnArgs.cell)
        /\ MessageCarries(fnResult.r.message, fnArgs.fieldDef.name)
              \/ MessageCarries(fnResult.r.message, fnArgs.fieldDef.id)

----------------------------------------------------------------------------
(* Claims about markdownToRichText (contentful.ts) *)

\* every node below `node` that can hold children holds at least one;
\* `leaves` are the node types allowed to have none
RECURSIVE NoEmptyContainer(_, _)
NoEmptyContainer(node, leaves) ==
    \/ node.nodeType \in leaves
    \/ /\ node.content # <<>>
       /\ \A i \in DOMAIN node.content : NoEmptyContainer(node.content[i], leaves)

RECURSIVE NodeTypesIn(_)
NodeTypesIn(node) ==
    {node.nodeType} \cup
    (IF node.nodeType = "text" THEN {}
     ELSE UNION { NodeTypesIn(node.content[i]) : i \in DOMAIN node.content })

\* C17 (as stated): for every input the document returned by
\* markdownToRichText has at least one block, and every block in it, the
\* horizontal rule included, has at least one child node
C17_NoContainerIsEmpty ==
    fnPc = "done" =>
        /\ fnResult.content # <<>>
        /\ NoEmptyContainer(fnResult, {"text"})

\* C17 (amended): for every input the document returned by markdownToRichText
\* has at least one block, and every block other than a horizontal rule
\* (heading, paragraph, blockquote, list, list-item, hyperlink) has at least
\* one child node; a horizontal rule has none
C17_NoContainerButRuleIsEmpty ==
    fnPc = "done" =>
        /\ fnResult.nodeType = "document"
        /\ fnResult.content # <<>>
        /\ NoEmptyContainer(fnResult, {"text", "hr"})
        /\ \A i \in DOMAIN fnResult.content :
               fnResult.content[i].nodeType = "hr"
                   => fnResult.content[i].content = <<>>

\* the text "---\n- c": a rule, then a list of one item
C17_Witness ==
    /\ fnPc = "done"
    /\ fnArgs.markdown = <<"-","-","-","\n","-"," ","c">>
    /\ {"hr", "unordered-list", "list-item", "paragraph"} \subseteq NodeTypesIn(fnResult)

\* C18: for every input made of blank or whitespace-only lines only (the
\* empty string included) markdownToRichText returns a document with exactly
\* one block, a paragraph holding exactly one text node whose value is the
\* empty string and whose marks are empty
C18_BlankInputGivesOneEmptyParagraph ==
    (fnPc = "done" /\ \A i \in DOMAIN fnArgs.markdown :
                          fnArgs.markdown[i] \in {" ", "\t", "\n"}) =>
        /\ Len(fnResult.content) = 1
        /\ fnResult.content[1].nodeType = "paragraph"
        /\ Len(fnResult.content[1].content) = 1
        /\ fnResult.content[1].content[1].nodeType = "text"
        /\ fnResult.content[1].content[1].value = <<>>
        /\ fnResult.content[1].content[1].marks = <<>>

\* a text of three lines, blank or a single space each
C18_Witness ==
    /\ fnPc = "done"
    /\ fnArgs.markdown = <<" ", "\n", "\n", " ">>
    /\ Len(fnResult.content) = 1

ListKinds == {"unordered-list", "ordered-list"}

ListKindOf(line) ==
    IF BulletPrefix(line) # 0 THEN "unordered-list"
    ELSE IF NumberPrefix(line) # 0 THEN "ordered-list"
    ELSE "none"

\* the lines that open a maximal run of list lines of one kind
RunStarts(lines) ==
    { i \in DOMAIN lines :
        /\ ListKindOf(lines[i]) \in ListKinds
        /\ i = 1 \/ ListKindOf(lines[i - 1]) # ListKindOf(lines[i]) }

\* the last line of the run that opens at line s
RunEnd(lines, s) ==
    CHOOSE e \in s..Len(lines) :
        /\ \A j \in s..e : ListKindOf(lines[j]) = ListKindOf(lines[s])
        /\ e = Len(lines) \/ ListKindOf(lines[e + 1]) # ListKindOf(lines[s])

KthOf(S, k) == CHOOSE i \in S : Cardinality({ j \in S : j < i }) = k - 1

IsListBlock(b) == b.nodeType \in ListKinds

\* C19: every maximal run of consecutive list lines of one kind becomes
\* exactly one list block of that kind with one list-item per line, in line
\* order; a blank line or a change of kind ends the run, and
\* "1. a\n2. b\n\n- c" gives an ordered-list of two items, then an
\* unordered-list of one item
C19_OneListBlockPerRun ==
    fnPc = "done" =>
        LET lines == Split(fnArgs.markdown, "\n")
            starts == RunStarts(lines)
            lists == SelectSeq(fnResult.content, IsListBlock)
        IN  /\ Len(lists) = Cardinality(starts)
            /\ \A k \in DOMAIN lists :
                 LET s == KthOf(starts, k)
                     e == RunEnd(lines, s)
                 IN  /\ lists[k].nodeType = ListKindOf(lines[s])
                     /\ Len(lists[k].content) = e - s + 1
                     /\ \A m \in DOMAIN lists[k].content :
                          /\ lists[k].content[m].nodeType = "list-item"
                          /\ Len(lists[k].content[m].content) = 1
                          /\ lists[k].content[m].content[1] =
                               Block("paragraph",
                                 parseInlineText(
                                   Drop(lines[s + m - 1],
                                        ListPrefix(ListKindOf(lines[s]),
                                                   lines[s + m - 1]))))
            /\ fnArgs.markdown = <<"1",".", " ","a","\n","2","."," ","b","\n","\n","-"," ","c">>
                 => /\ Len(fnResult.content) = 2
                    /\ fnResult.content[1].nodeType = "ordered-list"
                    /\ Len(fnResult.content[1].content) = 2
                    /\ fnResult.content[2].nodeType = "unordered-list"
                    /\ Len(fnResult.content[2].content) = 1

\* the text "1. a\n2. b\n\n- c"
C19_Witness ==
    /\ fnPc = "done"
    /\ fnArgs.markdown = <<"1",".", " ","a","\n","2","."," ","b","\n","\n","-"," ","c">>
    /\ Len(fnResult.content) = 2

----------------------------------------------------------------------------
(* Claims about FieldMappingEditor.updateMapping (field-mapping.tsx) *)

UniqueTargets(mappings) ==
    \A i, j \in DOMAIN mappings :
        i # j => mappings[i].targetField # mappings[j].targetField

UniqueSources(mappings) ==
    \A i, j \in DOMAIN mappings :
        i # j => mappings[i].sourceField # mappings[j].sourceField

\* C21: starting from a mapping set with unique targetField values, after
\* any sequence of updateMapping operations no two mappings of the set have
\* the same targetField
C21_OneSourcePerTarget ==
    uiPc = "editor" => UniqueTargets(fieldMappings)

OfSource(mappings, source) ==
    SelectSeq(mappings, LAMBDA m : m.sourceField = source)

NotOfSource(mappings, source) ==
    SelectSeq(mappings, LAMBDA m : m.sourceField # source)

\* what one updateMapping(fnArgs'.sourceField, fnArgs'.targetField) does to
\* the list
EditEffect ==
    LET source == fnArgs'.sourceField
        target == fnArgs'.targetField
    IN  /\ NotOfSource(fieldMappings', source) = NotOfSource(fieldMappings, source)
        /\ IF target = <<>>
           THEN OfSource(fieldMappings', source) = <<>>
           ELSE /\ Len(OfSource(fieldMappings', source)) = 1
                /\ OfSource(fieldMappings', source)[1].targetField = target
                /\ OfSource(fieldMappings', source)[1].confidence = 10

\* C22: starting from a mapping set with unique sourceField values, after
\* any sequence of updateMapping operations the set has at most one mapping
\* per source column; choosing a target sets that source's confidence to 1
\* and leaves every other source's mapping unchanged; choosing the empty
\* target removes that source's mapping and no other
C22_OneTargetPerSource ==
    /\ [](uiPc = "editor" => UniqueSources(fieldMappings))
    /\ [][uiPc = "editor" => EditEffect]_vars

\* source b was given target t next to an untouched suggestion for a
C22_Witness ==
    /\ uiPc = "editor"
    /\ fnArgs = [sourceField |-> <<"b">>, targetField |-> <<"t">>]
    /\ fieldMappings =
         << [sourceField |-> <<"a">>, targetField |-> <<"u">>, confidence |-> 5],
            [sourceField |-> <<"b">>, targetField |-> <<"t">>, confidence |-> 10] >>

----------------------------------------------------------------------------
(* Claims about mapRowToFields (contentful.ts) *)

\* the positions of the mappings that target the field
MappingsTo(config, target) ==
    { i \in DOMAIN config.fieldMappings :
        config.fieldMappings[i].targetField = target }

\* the positions among them whose source cell is neither null nor undefined
AppliedMappingsTo(row, config, target) ==
    { i \in MappingsTo(config, target) :
        Cell(row, config.fieldMappings[i].sourceField).t = "string" }

Greatest(S) == CHOOSE i \in S : \A j \in S : j <= i

\* the value of the field in the map returned
FieldValues(fields, target) ==
    { fields[i].val : i \in { j \in DOMAIN fields : fields[j].id = target } }

\* the field holds the transformed cell of mapping number i
HoldsValueOf(i, target) ==
    LET sourceValue == Cell(fnArgs.row, fnArgs.config.fieldMappings[i].sourceField)
    IN  /\ sourceValue.t = "string"
        /\ FieldValues(fnResult.value, target) =
             { transformValue(sourceValue,
                   FieldDefOf(ImportContentTypeFields, target)).value }

SharedTargets(config) ==
    { t \in {fAuthor, fCount} : Cardinality(MappingsTo(config, t)) >= 2 }

\* C23 (as stated): when several mappings of config.fieldMappings target the
\* same field, mapRowToFields gives that field the transformed value of the
\* last such mapping in list order, for every row
C23_LastMappingWins ==
    (fnPc = "done" /\ "row" \in DOMAIN fnArgs /\ ~fnResult.threw) =>
        \A t \in SharedTargets(fnArgs.config) :
            HoldsValueOf(Greatest(MappingsTo(fnArgs.config, t)), t)

\* C23 (amended): when several mappings target the same field and no
\* transform throws, mapRowToFields gives that field the transformed value
\* of the last such mapping whose source cell is neither null nor undefined;
\* a mapping whose cell is null or undefined is skipped and leaves the value
\* of an earlier mapping in place
C23_LastAppliedMappingWins ==
    (fnPc = "done" /\ "row" \in DOMAIN fnArgs /\ ~fnResult.threw) =>
        \A t \in SharedTargets(fnArgs.config) :
            AppliedMappingsTo(fnArgs.row, fnArgs.config, t) # {} =>
                HoldsValueOf(
                    Greatest(AppliedMappingsTo(fnArgs.row, fnArgs.config, t)), t)

\* ref -> author, n -> author, alt -> author on a row whose cell alt is
\* null: the field holds the value of n, the second mapping
C23_Witness ==
    /\ fnPc = "done" /\ "row" \in DOMAIN fnArgs /\ ~fnResult.threw
    /\ fnArgs.config.fieldMappings =
         << Mapping(cRef, fAuthor), Mapping(cNum, fAuthor), Mapping(cAlt, fAuthor) >>
    /\ fnArgs.row = (cRef :> Str(sEntry1) @@ cAlt :> Null @@ cNum :> Str(<<"7">>))
    /\ FieldValues(fnResult.value, fAuthor) = { toEntryLink(<<"7">>) }

----------------------------------------------------------------------------
(* Claims about the status of ContentImporter (content-importer.tsx) *)

\* stepOrder.indexOf(status) of processing-steps.tsx, 1-based; 0 for a
\* status that is no step ("idle", "error")
StepIndex(s) ==
    CASE s = "parsing" -> 1
      [] s = "validating" -> 2
      [] s = "mapping" -> 3
      [] s = "importing" -> 4
      [] s = "complete" -> 5
      [] OTHER -> 0

\* C24: during one import workflow the status only moves forward through
\* Parsing -> Validating -> Mapping -> Importing -> Complete: between two
\* resets it never goes from a later step back to an earlier one (and so
\* "mapping" is not entered before "validating" has been passed)
C24_StatusOnlyMovesForward ==
    [][(StepIndex(status) > 0 /\ StepIndex(status') > 0)
          => StepIndex(status') >= StepIndex(status)]_vars

----------------------------------------------------------------------------
(* Claims about lookup resolution in importContent (contentful.ts) *)

\* C25: lookup resolution is never retried: within one importContent run
\* each placeholder of a row causes at most one store query; when a query
\* returns zero entries the row fails at once with a "Lookup failed" error,
\* no further query is issued for that row, and the row is not attempted
\* again later in the run
C25_LookupNeverRetried ==
    impPc # "off" =>
        /\ \A p, q \in DOMAIN queryLog :
              (queryLog[p].row = queryLog[q].row
                 /\ queryLog[p].fieldId = queryLog[q].fieldId) => p = q
        /\ \A p, q \in DOMAIN queryLog :
              p < q => queryLog[p].row <= queryLog[q].row
        /\ \A q \in DOMAIN queryLog :
              queryLog[q].outcome = "none" =>
                 /\ \A p \in DOMAIN queryLog :
                       queryLog[p].row = queryLog[q].row => p <= q
                 /\ Cardinality(ErrorsOfRow(queryLog[q].row)) = 1
                 /\ \A k \in ErrorsOfRow(queryLog[q].row) :
                       result.errors[k].message = "Lookup failed"
                 /\ EntriesOfRow(queryLog[q].row) = {}
                 /\ \A c \in DOMAIN createLog :
                       createLog[c].row # queryLog[q].row
                 /\ rowIndex + 2 > queryLog[q].row

\* a run of two rows has returned; the first row's lookup found nothing
\* after one query, the second row was queried too
C25_Witness ==
    /\ impPc = "returned"
    /\ \E q \in DOMAIN queryLog :
          queryLog[q].row = 2 /\ queryLog[q].outcome = "none"
    /\ \E q \in DOMAIN queryLog : queryLog[q].row = 3
    /\ result.totalProcessed = 2

----------------------------------------------------------------------------
(* Claims about validateFieldValue for Boolean fields (part_001) *)

\* C26: for a Boolean target field validateFieldValue reports an error for
\* a non-empty value if and only if the lower-cased, trimmed string form of
\* the value is not one of true, false, yes, no, 1, 0, y, n; it accepts
\* exactly the values that toBoolean converts without throwing
C26_BooleanCheckMatchesConversion ==
    (fnPc = "done" /\ "field" \in DOMAIN fnArgs /\ fnArgs.value.s # <<>>) =>
        /\ fnResult.errors # <<>>
             <=> Trim(ToLowerCase(fnArgs.value.s)) \notin BooleanWords
        /\ fnResult.errors = <<>> <=> ~fnResult.converted.threw

----------------------------------------------------------------------------
(* Claims about the ImportResult of importContent (contentful.ts) *)

\* C27: on every return of importContent, also when obtaining the space,
\* the environment or the content type fails, totalProcessed = created +
\* failed, entries.length = created, errors.length = failed, updated = 0,
\* and success is true if and only if failed = 0
C27_ResultAccounting ==
    impPc = "returned" =>
        /\ result.totalProcessed = result.created + result.failed
        /\ Len(result.entries) = result.created
        /\ Len(result.errors) = result.failed
        /\ result.updated = 0
        /\ result.success <=> result.failed = 0

\* C28: a row that importContent reports as failed has left no entry in
\* the store: for every row listed in errors no createEntry call for that
\* row succeeded, also when publishImmediately is set and entry.publish
\* fails after the entry was created
C28_FailedRowLeavesNoEntry ==
    impPc # "off" =>
        \A k \in DOMAIN result.errors :
            \A c \in DOMAIN createLog :
                createLog[c].row = result.errors[k].row => ~createLog[c].created

----------------------------------------------------------------------------
(* Claims about when ContentImporter starts an import (content-importer.tsx) *)

ImportPreconditions ==
    /\ parsedFile # NullValue
    /\ selectedContentType # ""
    /\ validation # NullValue
    /\ fieldMappings # <<>>

\* C29: the import can only be triggered when a file has been parsed, a
\* content type is selected, validateContent has returned successfully and
\* fieldMappings is non-empty; status "importing" is never entered before a
\* successful validation, and status "complete" implies importResult is
\* set (a validation result with isValid = false does not prevent the
\* import: see the witness)
C29_ImportOnlyAfterValidation ==
    /\ [](uiPc # "off" =>
            /\ status = "importing" => ImportPreconditions
            /\ status = "complete" => importResult # NullValue)
    /\ [][(uiPc # "off" /\ status # "importing" /\ status' = "importing")
             => ImportPreconditions]_vars

\* an import is running although the validation result says isValid = false
C29_Witness ==
    /\ status = "importing"
    /\ uiPc = "importContent"
    /\ validation # NullValue
    /\ ~validation.isValid

----------------------------------------------------------------------------
(* Claims about row numbers (part_001, contentful.ts, content-importer.tsx) *)

\* the row number validateContent and importContent give the row at
\* 0-based index i ("const rowNumber = i + 2")
RowNumberOf(i) == i + 2

\* C30: the row at 0-based index i of the parsed rows is reported with the
\* same row number i + 2 in validation errors, in import errors, in the
\* imported entries of a real import and in the simulated entries of a
\* dry-run import; here: in a completed import that created every row, the
\* entry of the row at index i carries the number i + 2
C30_RowNumbersConsistent ==
    (uiPc # "off" /\ status = "complete"
        /\ importResult.created = Len(parsedFile.rows)) =>
        \A i \in 0..(Len(parsedFile.rows) - 1) :
            importResult.entries[i + 1].row = RowNumberOf(i)

====
